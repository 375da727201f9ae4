------------------------------- MODULE Semantics ------------------------------
(***************************************************************************)
(* What a computation means, from the comments of computation.proto,       *)
(* docs/ir.md and intrinsic_uris.h, and independently of how               *)
(* ControlFlowExecutor computes it. There are no scopes: a bound name is   *)
(* replaced by its value, so a value is itself a closed v0::Value and      *)
(* needs no context. A block is nested lambdas, a serial chain h(g(f(x))), *)
(* a repeat the serial chain of its copies, and a repeated conditional     *)
(* chain the breakable chain of its rounds.                                *)
(*                                                                         *)
(* What an inline intrinsic computes is shared with the executor; an error *)
(* of one is a value, ErrorPb, until the value is needed.                  *)
(***************************************************************************)
EXTENDS Intrinsics, Outcomes

CONSTANT MaxLoop   \* bound: iterations of a while loop

\* The parameter of a lambda that was called without an argument.
Unbound == [case |-> "unbound"]

\* v for every free occurrence of name in pb; v has no free names.
RECURSIVE Subst(_, _, _)
Subst(pb, name, v) ==
  LET all(pbs) == [i \in DOMAIN pbs |-> Subst(pbs[i], name, v)] IN
  CASE pb.case = "reference" -> IF pb.name = name THEN v ELSE pb
    [] pb.case = "lambda" ->
         IF pb.parameter_name = name THEN pb
         ELSE [pb EXCEPT !.result = Subst(@, name, v)]
    [] pb.case = "call" ->
         [pb EXCEPT !.function = Subst(@, name, v), !.argument = all(@)]
    [] pb.case = "struct" -> [pb EXCEPT !.element = all(@)]
    [] pb.case = "selection" -> [pb EXCEPT !.source = Subst(@, name, v)]
    [] pb.case = "intrinsic" -> [pb EXCEPT !.static_parameter = all(@)]
    [] OTHER -> pb

\* A let-expression is the application of a lambda.
RECURSIVE AsLambdas(_, _)
AsLambdas(locals, result) ==
  IF locals = <<>> THEN result
  ELSE CreateCall(CreateLambda(Head(locals).name, AsLambdas(Tail(locals), result)),
                  Head(locals).value)

\* No blocks left, so that Subst need not know them.
RECURSIVE Desugar(_)
Desugar(pb) ==
  LET all(pbs) == [i \in DOMAIN pbs |-> Desugar(pbs[i])] IN
  CASE pb.case = "block" ->
         AsLambdas([i \in DOMAIN pb.local |->
                      [pb.local[i] EXCEPT !.value = Desugar(@)]],
                   Desugar(pb.result))
    [] pb.case = "lambda" -> [pb EXCEPT !.result = Desugar(@)]
    [] pb.case = "call" ->
         [pb EXCEPT !.function = Desugar(@), !.argument = all(@)]
    [] pb.case = "struct" -> [pb EXCEPT !.element = all(@)]
    [] pb.case = "selection" -> [pb EXCEPT !.source = Desugar(@)]
    [] pb.case = "intrinsic" -> [pb EXCEPT !.static_parameter = all(@)]
    [] OTHER -> pb

IsControlFlow(v) == v.case = "intrinsic" /\ v.uri \in ControlFlowUris

\* A value that leaves the runtime: an error surfaces, and a control-flow
\* intrinsic has no representation outside it.
RECURSIVE Portable(_)
Portable(v) ==
  CASE v.case = "struct" -> \A e \in ToSet(v.element) : Portable(e)
    [] OTHER -> v # ErrorPb /\ ~IsControlFlow(v)

RECURSIVE HasControlFlow(_)
HasControlFlow(v) ==
  IF v.case = "struct" THEN \E e \in ToSet(v.element) : HasControlFlow(e)
  ELSE IsControlFlow(v)

Needed(v) == IF Portable(v) THEN Ok(v) ELSE Fail

RECURSIVE Value(_), Applied(_, _), ValueOfEach(_)

\* The values of pbs, from left to right.
ValueOfEach(pbs) ==
  IF pbs = <<>> THEN Ok(<<>>)
  ELSE Try(Value(Head(pbs)), LAMBDA v :
           Try(ValueOfEach(Tail(pbs)), LAMBDA vs : Ok(<<v>> \o vs)))

\* Only a struct has elements; asking anything computed for one is an error
\* of the work, asking a function is refused.
Selected(source, index) ==
  CASE source.case = "struct" /\ index < Len(source.element) ->
         Ok(source.element[index + 1])
    [] source.case \in {"struct", "lambda"} \/ IsControlFlow(source) -> Fail
    [] OTHER -> Ok(ErrorPb)

Value(pb) ==
  CASE pb.case = "reference" \/ pb = Unbound -> Fail
    [] pb.case = "call" ->
         Try(Value(pb.function), LAMBDA fn :
             Try(ValueOfEach(pb.argument), LAMBDA arg : Applied(fn, arg)))
    [] pb.case = "struct" ->
         Try(ValueOfEach(pb.element), LAMBDA vs : Ok(CreateStruct(vs)))
    [] pb.case = "selection" ->
         Try(Value(pb.source), LAMBDA source : Selected(source, pb.index))
    [] pb.case = "intrinsic" ->
         IF HasHandler(pb) /\ CheckWellFormed(pb) THEN Ok(pb) ELSE Fail
    [] OTHER -> Ok(pb)

\* An inline intrinsic works on a whole value; one error in it is enough.
Inline(fn, arg) ==
  IF HasControlFlow(arg) THEN Fail
  ELSE IF ~Portable(arg) THEN Ok(ErrorPb)
  ELSE [Ok(ExecuteInline(fn, arg)) EXCEPT
          !.calls = <<[intr |-> fn, arg |-> arg]>>]

\* If a function returns true, what it was given is the result; if false, what
\* it was given goes on; anything else it returns goes on.
RECURSIVE Links(_, _)
Links(fns, x) ==
  IF fns = <<>> THEN Ok(x)
  ELSE Try(Value(CreateCall(Head(fns), x)), LAMBDA y :
           Try(Needed(y), LAMBDA v :
               CASE y = Boolean(TRUE) -> Ok(x)
                 [] y = Boolean(FALSE) -> Links(Tail(fns), x)
                 [] OTHER -> Links(Tail(fns), y)))

\* The first candidate that has a result.
RECURSIVE FirstOf(_, _)
FirstOf(fns, arg) ==
  IF fns = <<>> THEN Fail
  ELSE LET one == Try(Value([case |-> "call", function |-> Head(fns),
                             argument |-> arg]), Needed)
       IN  IF one.status = "fail" THEN After(one, FirstOf(Tail(fns), arg)) ELSE one

RECURSIVE Iterated(_, _, _, _)
Iterated(condition, body, x, n) ==
  Try(Value(CreateCall(condition, x)), LAMBDA c :
      CASE c = Boolean(FALSE) -> Ok(x)
        [] c = Boolean(TRUE) ->
             IF n = 0 THEN Cut
             ELSE Try(Value(CreateCall(body, x)), LAMBDA y :
                      Iterated(condition, body, y, n - 1))
        [] OTHER -> Fail)

Copies(n, pbs) == FlattenSeq([i \in 1 .. n |-> pbs])

\* h(g(f(x))), with f first.
RECURSIVE Composed(_, _)
Composed(fns, x) ==
  IF fns = <<>> THEN Ok(x)
  ELSE Try(Value(CreateCall(Head(fns), x)), LAMBDA y : Composed(Tail(fns), y))

ControlFlow(fn, arg) ==
  LET params == Params(fn)
      x == arg[1]
  IN
  CASE fn.uri = "fallback" -> FirstOf(params, arg)
    [] fn.uri = "delegate" ->
         Value([case |-> "call", function |-> params[2], argument |-> arg])
    [] arg = <<>> -> Fail
    [] fn.uri = "conditional" ->
         IF x.case = "boolean" THEN Value(params[IF x.boolean THEN 1 ELSE 2])
         ELSE Fail
    [] fn.uri = "while" ->
         Try(ValueOfEach(params), LAMBDA vs : Iterated(vs[1], vs[2], x, MaxLoop))
    [] fn.uri = "repeat" ->
         Try(Value(params[2]), LAMBDA body :
             Composed(Copies(params[1].int_32, <<body>>), x))
    [] fn.uri = "serial_chain" -> Composed(params, x)
    [] fn.uri = "breakable_chain" -> Links(params, x)
    [] fn.uri = "repeated_conditional_chain" ->
         Try(ValueOfEach(Tail(params)), LAMBDA fns :
             Links(Copies(params[1].int_32, fns), x))
    [] fn.uri = "parallel_map" ->
         Try(Needed(x), LAMBDA v :
             Try(Value(fn.static_parameter[1]), LAMBDA f :
                 LET elements == IF x.case = "struct" THEN x.element ELSE <<>>
                     calls == [i \in DOMAIN elements |-> CreateCall(f, elements[i])]
                 IN  Value(CreateStruct(calls))))

Applied(fn, arg) ==
  CASE fn.case = "lambda" ->
         Value(Subst(fn.result, fn.parameter_name,
                     IF arg = <<>> THEN Unbound ELSE arg[1]))
    [] IsControlFlow(fn) -> ControlFlow(fn, arg)
    [] fn.case = "struct" \/ arg = <<>> -> Fail
    [] fn.case = "intrinsic" -> Inline(fn, arg[1])
    [] HasControlFlow(arg[1]) -> Fail
    [] OTHER -> Ok(ErrorPb)

\* The meaning of applying computation to the argument, if there is one.
Meaning(computation, arg) ==
  Try(Value([case |-> "call", function |-> Desugar(computation),
             argument |-> [i \in DOMAIN arg |-> Desugar(arg[i])]]), Needed)
===============================================================================
