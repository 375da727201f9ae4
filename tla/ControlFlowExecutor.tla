------------------------- MODULE ControlFlowExecutor --------------------------
(***************************************************************************)
(* The control-flow executor (genc/cc/runtime/control_flow_executor.cc),   *)
(* the handlers of the control-flow intrinsics (genc/cc/intrinsics) and    *)
(* the runner (genc/cc/runtime/runner.cc), above a child executor that     *)
(* behaves like the inline executor: the value of a call, a struct or a    *)
(* selection exists at once, and an error of the work behind it is seen    *)
(* only by whoever materializes it.                                        *)
(*                                                                         *)
(* Evaluation is sequential, so it is a recursive operator here. Every     *)
(* operator returns an outcome of module Outcomes.                         *)
(***************************************************************************)
EXTENDS Intrinsics, Outcomes

CONSTANTS
  MaxLoop,       \* bound: iterations of a while loop
  SwapOutcome    \* what Swap on an empty optional does: "lost" or "crash"

ASSUME ControlFlowAssumption ==
  MaxLoop \in Nat /\ SwapOutcome \in {"lost", "crash"}

\* ExecutorValue. A scope is the sequence of its bindings, innermost first.
Embedded(pb) == [type |-> "EMBEDDED", embedded |-> pb]
Structure(elements) == [type |-> "STRUCTURE", structure |-> elements]
ScopedLambda(lambda, scope) ==
  [type |-> "LAMBDA", lambda |-> lambda, scope |-> scope]
ScopedIntrinsic(intr, scope) ==
  [type |-> "INTRINSIC", intrinsic |-> intr, scope |-> scope]

RootScope == <<>>
Bind(name, value, scope) == <<Local(name, value)>> \o scope

-----------------------------------------------------------------------------
(* The child executor *)

Called(intr, arg) == [intr |-> intr, arg |-> arg]

\* A call that fails on its function or argument never reaches the handler.
ChildCreateCall(fn, arg) ==
  IF ErrorPb \in {fn, arg} \/ fn.case # "intrinsic" THEN Ok(Embedded(ErrorPb))
  ELSE IF ~(HasHandler(fn) /\ CheckWellFormed(fn) /\ fn.uri \in InlineUris)
  THEN Ok(Embedded(ErrorPb))
  ELSE [Ok(Embedded(ExecuteInline(fn, arg))) EXCEPT !.calls = <<Called(fn, arg)>>]

ChildCreateStruct(members) ==
  IF ErrorPb \in ToSet(members) THEN ErrorPb ELSE CreateStruct(members)

ChildCreateSelection(source, index) ==
  IF source.case = "struct" /\ index < Len(source.element)
  THEN source.element[index + 1] ELSE ErrorPb

-----------------------------------------------------------------------------
(* Values *)

\* Plausible mistake: the surrounding scope is asked first.
Resolve_OutermostFirst(name, scope) ==
  LET found == SelectSeq(scope, LAMBDA b : b.name = name)
  IN  IF found = <<>> THEN Fail ELSE Ok(Last(found).value)

Resolve(name, scope) ==
  LET found == SelectSeq(scope, LAMBDA b : b.name = name)
  IN  IF found = <<>> THEN Fail ELSE Ok(Head(found).value)

\* The values of Each(t), for every t of ts from left to right.
TryAll(ts, Each(_)) ==
  FoldLeft(LAMBDA done, t :
             Try(done, LAMBDA vs : Try(Each(t), LAMBDA v : Ok(Append(vs, v)))),
           Ok(<<>>), ts)

\* A lambda is forwarded as its proto, without the scope it was created in.
RECURSIVE Embed(_)
Embed(v) ==
  CASE v.type = "EMBEDDED" -> Ok(v.embedded)
    [] v.type = "STRUCTURE" ->
         Try(TryAll(v.structure, Embed), LAMBDA fields :
             Ok(ChildCreateStruct(fields)))
    [] v.type = "LAMBDA" -> Ok(v.lambda)
    [] v.type = "INTRINSIC" -> Fail

Materialize(v) ==
  Try(Embed(v), LAMBDA pb : IF pb = ErrorPb THEN Fail ELSE Ok(pb))

\* The elements stay with this executor; Embed hands them to the child.
ConstCreateStruct(members) == Structure(members)

\* The index is 0-based and unsigned.
CreateSelectionInternal(source, index) ==
  CASE source.type = "EMBEDDED" ->
         Ok(Embedded(ChildCreateSelection(source.embedded, index)))
    [] source.type = "STRUCTURE" ->
         IF index < Len(source.structure) THEN Ok(source.structure[index + 1])
         ELSE Fail
    [] OTHER -> Fail

-----------------------------------------------------------------------------
(* Evaluation *)

RECURSIVE Evaluate(_, _), ExecuteCall(_, _, _)

EvaluateIntrinsic(intr, scope) ==
  IF ~(HasHandler(intr) /\ CheckWellFormed(intr)) THEN Fail
  ELSE Ok(IF intr.uri \in ControlFlowUris THEN ScopedIntrinsic(intr, scope)
          ELSE Embedded(intr))

Bound(name, scope) == \E n \in DOMAIN scope : scope[n].name = name

CallLambda(lambda, scope, arg) ==
  LET name == lambda.parameter_name
  IN  IF arg = <<>>
      THEN Lossy(Evaluate(lambda.result, scope),
                 IF Bound(name, scope) THEN {"parameter"} ELSE {})
      ELSE Evaluate(lambda.result, Bind(name, arg[1], scope))

\* An absent argument is <<>>: the body is then evaluated with no binding for
\* the parameter. InlineExecutor refuses a call without an argument.
ConstCreateCall(fn, arg) ==
  CASE fn.type = "EMBEDDED" ->
         IF arg = <<>> THEN Fail
         ELSE Try(Embed(arg[1]), LAMBDA a : ChildCreateCall(fn.embedded, a))
    [] fn.type = "LAMBDA" -> CallLambda(fn.lambda, fn.scope, arg)
    [] fn.type = "STRUCTURE" -> Fail
    [] fn.type = "INTRINSIC" -> ExecuteCall(fn.intrinsic, arg, fn.scope)

EvaluateCall(pb, scope) ==
  Try(Evaluate(pb.function, scope), LAMBDA fn :
      Try(TryAll(pb.argument, LAMBDA a : Evaluate(a, scope)), LAMBDA arg :
          ConstCreateCall(fn, arg)))

\* A local sees the locals before it.
EvaluateBlock(pb, scope) ==
  LET inner == FoldLeft(LAMBDA sc, l :
                          Try(sc, LAMBDA current :
                              Try(Evaluate(l.value, current), LAMBDA v :
                                  Ok(Bind(l.name, v, current)))),
                        Ok(scope), pb.local)
  IN  Try(inner, LAMBDA current : Evaluate(pb.result, current))

Evaluate(pb, scope) ==
  CASE pb.case = "block" -> EvaluateBlock(pb, scope)
    [] pb.case = "reference" -> Resolve(pb.name, scope)
    [] pb.case = "call" -> EvaluateCall(pb, scope)
    [] pb.case = "selection" ->
         Try(Evaluate(pb.source, scope), LAMBDA source :
             CreateSelectionInternal(source, pb.index))
    [] pb.case = "struct" ->
         Try(TryAll(pb.element, LAMBDA e : Evaluate(e, scope)),
             LAMBDA elements : Ok(Structure(elements)))
    [] pb.case = "lambda" -> Ok(ScopedLambda(pb, scope))
    [] pb.case = "intrinsic" -> EvaluateIntrinsic(pb, scope)
    [] OTHER -> Ok(Embedded(pb))

-----------------------------------------------------------------------------
(* The call context of the control-flow intrinsics *)

HasComputation(pb) ==
  pb.case \in {"block", "reference", "call", "lambda", "struct", "selection",
               "intrinsic"}

\* A value with no case, which the child executor takes, is refused here.
ConstCreateExecutorValue(pb) ==
  CASE pb = Unset -> Lossy(Fail, {"unset"})
    [] HasComputation(pb) -> Evaluate(pb, RootScope)
    [] OTHER -> Ok(Embedded(pb))

\* What is given to CreateValue is evaluated in the scope of the intrinsic.
CreateValue(pb, scope) ==
  IF HasComputation(pb) THEN Evaluate(pb, scope) ELSE ConstCreateExecutorValue(pb)

\* CreateValue of a proto that was materialized.
Recreate(pb, scope) ==
  Lossy(CreateValue(pb, scope), IF FreeNames(pb) = {} THEN {} ELSE {"scope"})

Apply(fn, v) == ConstCreateCall(fn, <<v>>)

-----------------------------------------------------------------------------
(* The control-flow intrinsics *)

\* arg.value(), which most of them read without a test: it throws if there is
\* no argument.
ArgValue(arg) == IF arg = <<>> THEN Crash ELSE Ok(arg[1])

RECURSIVE Loop(_, _, _, _)
Loop(condition, body, state, n) ==
  Try(Apply(condition, state), LAMBDA cond :
      Try(Materialize(cond), LAMBDA pb :
          IF pb.case # "boolean" THEN Fail
          ELSE IF ~pb.boolean THEN Ok(state)
          ELSE IF n = 0 THEN Cut
          ELSE Try(Apply(body, state), LAMBDA next :
                   Loop(condition, body, next, n - 1))))

While(intr, arg, scope) ==
  Try(CreateValue(Params(intr)[1], scope), LAMBDA condition :
      Try(CreateValue(Params(intr)[2], scope), LAMBDA body :
          Try(ArgValue(arg), LAMBDA state : Loop(condition, body, state, MaxLoop))))

Repeat(intr, arg, scope) ==
  Try(CreateValue(Params(intr)[2], scope), LAMBDA body :
      FoldLeft(LAMBDA state, i : Try(state, LAMBDA s : Apply(body, s)),
               ArgValue(arg), [i \in 1 .. Params(intr)[1].int_32 |-> i]))

\* Plausible mistake: both alternatives are evaluated before one is chosen.
Conditional_Eager(intr, arg, scope) ==
  Try(Try(ArgValue(arg), Materialize), LAMBDA pb :
      IF pb.case # "boolean" THEN Fail
      ELSE Try(TryAll(Params(intr), LAMBDA p : CreateValue(p, scope)), LAMBDA vs :
               Ok(vs[IF pb.boolean THEN 1 ELSE 2])))

\* Only the alternative that is chosen is looked at.
Conditional(intr, arg, scope) ==
  IF arg = <<>> THEN Fail
  ELSE Try(Materialize(arg[1]), LAMBDA pb :
           IF pb.case # "boolean" THEN Fail
           ELSE CreateValue(Params(intr)[IF pb.boolean THEN 1 ELSE 2], scope))

\* The first candidate whose result can be materialized.
Fallback(intr, arg, scope) ==
  FoldLeft(LAMBDA done, fn :
             IF done.status # "fail" THEN done
             ELSE After(done,
                        Try(CreateValue(fn, scope), LAMBDA f :
                            Try(ConstCreateCall(f, arg), LAMBDA result :
                                Try(Materialize(result), LAMBDA pb : Ok(result))))),
           Fail, Params(intr))

SerialChain(intr, arg, scope) ==
  FoldLeft(LAMBDA state, fn :
             Try(state, LAMBDA s :
                 Try(CreateValue(fn, scope), LAMBDA f : Apply(f, s))),
           ArgValue(arg), Params(intr))

\* One link of a chain: next is what the function made of state. A Boolean
\* ends the chain or is dropped, anything else becomes the state.
Link(state, next, Keep(_)) ==
  Try(Materialize(next), LAMBDA pb :
      IF pb.case # "boolean"
      THEN Try(Keep(pb), LAMBDA s : Ok([go |-> TRUE, state |-> s]))
      ELSE Ok([go |-> ~pb.boolean, state |-> state]))

\* The links of fns in order, until one of them says to stop.
Chain(fns, arg, Step(_, _)) ==
  Try(FoldLeft(LAMBDA acc, fn :
                 Try(acc, LAMBDA at : IF at.go THEN Step(fn, at.state) ELSE Ok(at)),
               Try(ArgValue(arg), LAMBDA state : Ok([go |-> TRUE, state |-> state])),
               fns),
      LAMBDA at : Ok(at.state))

BreakableChain(intr, arg, scope) ==
  Chain(Params(intr), arg, LAMBDA fn, state :
        Try(CreateValue(fn, scope), LAMBDA f :
            Try(Apply(f, state), LAMBDA next :
                Link(state, next, LAMBDA pb : Ok(next)))))

RepeatedConditionalChain(intr, arg, scope) ==
  Try(TryAll(Tail(Params(intr)), LAMBDA fn : CreateValue(fn, scope)), LAMBDA fns :
      LET rounds == [i \in 1 .. Params(intr)[1].int_32 |-> fns]
      IN  Chain(FlattenSeq(rounds), arg, LAMBDA f, state :
                Try(Apply(f, state), LAMBDA next :
                    Link(state, next, LAMBDA pb : Recreate(pb, scope)))))

\* struct_() of a value that is not a struct has no elements.
ParallelMap(intr, arg, scope) ==
  Try(Try(ArgValue(arg), Materialize), LAMBDA pb :
      Try(CreateValue(intr.static_parameter[1], scope), LAMBDA fn :
          Try(TryAll(IF pb.case = "struct" THEN pb.element ELSE <<>>, LAMBDA e :
                     Try(Recreate(e, scope), LAMBDA v : Apply(fn, v))),
              LAMBDA results : Ok(ConstCreateStruct(results)))))

\* The runner of another environment, taken to run the computation as here.
RunElsewhere(fn, arg) ==
  Try(Evaluate(fn, RootScope), LAMBDA f :
      Try(TryAll(arg, LAMBDA a : Evaluate(a, RootScope)), LAMBDA a :
          Try(ConstCreateCall(f, a), Materialize)))

\* optional_arg_pb is empty when Swap is called on it: whatever Swap does, the
\* optional stays empty or the program does not survive.
DelegateCall(intr, arg, scope) ==
  LET run(a) == Try(RunElsewhere(Params(intr)[2], a), LAMBDA pb :
                    CreateValue(pb, scope))
  IN  IF Params(intr)[1].str # <<"cloud">> THEN Fail
      ELSE IF arg = <<>> THEN run(<<>>)
      ELSE Try(Materialize(arg[1]), LAMBDA pb :
               IF SwapOutcome = "lost" THEN Lossy(run(<<>>), {"argument"})
               ELSE Crash)

ExecuteCall(intr, arg, scope) ==
  CASE intr.uri = "while" -> While(intr, arg, scope)
    [] intr.uri = "repeat" -> Repeat(intr, arg, scope)
    [] intr.uri = "conditional" -> Conditional(intr, arg, scope)
    [] intr.uri = "fallback" -> Fallback(intr, arg, scope)
    [] intr.uri = "serial_chain" -> SerialChain(intr, arg, scope)
    [] intr.uri = "breakable_chain" -> BreakableChain(intr, arg, scope)
    [] intr.uri = "repeated_conditional_chain" ->
         RepeatedConditionalChain(intr, arg, scope)
    [] intr.uri = "parallel_map" -> ParallelMap(intr, arg, scope)
    [] intr.uri = "delegate" -> DelegateCall(intr, arg, scope)

-----------------------------------------------------------------------------
(* Runner::Run, with the argument of ExecutorInterface::CreateCall optional *)

Run(computation, arg) ==
  Try(ConstCreateExecutorValue(computation), LAMBDA comp :
      Try(TryAll(arg, ConstCreateExecutorValue), LAMBDA a :
          Try(ConstCreateCall(comp, a), Materialize)))
===============================================================================
