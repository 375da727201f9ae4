----------------------------- MODULE Computations -----------------------------
(***************************************************************************)
(* A program authors a computation, one constructor after the other, and   *)
(* runs it: genc/cc/authoring/constructor.cc, genc/cc/runtime/runner.cc.   *)
(* The result is compared with what module Semantics says it should be.    *)
(***************************************************************************)
EXTENDS JavaRuntime

CONSTANTS
  Starts,     \* what a computation is started from
  Parts,      \* what the constructors combine it with
  Texts,      \* the names and texts that constructors are given
  Configs,    \* the model configurations
  Arguments,  \* the lists of arguments it is run on
  Urls,       \* the addresses of services
  MaxSteps    \* bound: constructors around the first part

VARIABLES
  computation,   \* the v0::Value authored so far, or Null
  steps,         \* the constructors used
  language,      \* of the program that ran it
  input,         \* the argument of the run, optional
  outcome,       \* what the run returned
  authored,      \* ghost: what the constructors used stand for
  meaning        \* ghost: what the run should have returned

vars == <<computation, steps, language, input, outcome, authored, meaning>>

Meant == INSTANCE Semantics

Closed(pb) == FreeNames(pb) = {}
NotRun == Returned("none", Nothing)

x == CreateReference("arg")
IsAnswer == CreateRegexPartialMatch(<<"answer">>)
Template == <<"{x}", "then", "{y}">>

Init ==
  /\ computation \in Starts
  /\ authored = computation
  /\ steps = 0
  /\ language = "none"
  /\ input = <<>>
  /\ outcome = NotRun
  /\ meaning = NotRun

-----------------------------------------------------------------------------
(* Authoring *)

\* Next to value, what a Java program that uses the same constructor gets. It
\* goes no further with Null, whose methods throw. A computation may be begun
\* in one language and be continued in another, which reads it from a file.
Authoring(value, bytes) ==
  /\ outcome = NotRun
  /\ computation # Null
  /\ computation' \in {value, Received(bytes)}
  /\ authored' = value
  /\ UNCHANGED <<language, input, outcome, meaning>>

Author(value, bytes) ==
  /\ steps < MaxSteps
  /\ steps' = steps + 1
  /\ Authoring(value, bytes)

\* What is made from texts alone is run as it is.
AuthorFromText(value, bytes) ==
  /\ steps = 0
  /\ steps' = MaxSteps
  /\ Authoring(value, bytes)

\* The pairs of the computation and a part, in both orders.
Pairs == {<<computation, p>> : p \in Parts} \cup {<<p, computation>> : p \in Parts}

\* What a constructor that takes a list is given: no constructor looks at its
\* length.
Lists == Pairs \cup {<<>>}

AuthorModelInference ==
  \E t \in Texts :
    AuthorFromText(CreateModelInference(t), Native("CreateModelInference", <<t>>))
AuthorModelInferenceWithConfig ==
  \E t \in Texts, c \in Configs :
    AuthorFromText(CreateModelInferenceWithConfig(t, c),
                   Native("CreateModelInferenceWithConfig", <<t, c>>))
AuthorPromptTemplate ==
  \E t \in Texts :
    AuthorFromText(CreatePromptTemplate(t), Native("CreatePromptTemplate", <<t>>))
AuthorInjaTemplate ==
  \E t \in Texts :
    AuthorFromText(CreateInjaTemplate(t), Native("CreateInjaTemplate", <<t>>))
AuthorCustomFunction ==
  \E t \in Texts :
    AuthorFromText(CreateCustomFunction(t), Native("CreateCustomFunction", <<t>>))
AuthorRegexPartialMatch ==
  \E t \in Texts :
    AuthorFromText(CreateRegexPartialMatch(t),
                   Native("CreateRegexPartialMatch", <<t>>))
AuthorWolframAlpha ==
  \E t \in Texts \cup {<<>>} :
    AuthorFromText(CreateWolframAlpha(t), Native("CreateWolframAlpha", <<t>>))
AuthorReference ==
  \E t \in Texts :
    AuthorFromText(CreateReference(t[1]), Native("CreateReference", <<t[1]>>))
AuthorLogicalNot ==
  AuthorFromText(CreateLogicalNot, Native("CreateLogicalNot", <<>>))
AuthorLogger == AuthorFromText(CreateLogger, Native("CreateLogger", <<>>))
\* Java has no constructor of a REST call.
AuthorRestCall ==
  \E url \in Urls, key \in {<<>>, <<"key">>}, m \in {<<"GET">>, <<"POST">>, <<"PUT">>} :
    LET rest == CreateRestCall(url, key, m) IN AuthorFromText(rest, rest)

AuthorLambda ==
  \/ \E name \in {"arg", "y"} :
       Author(CreateLambda(name, computation),
              Native("CreateLambda", <<name, computation>>))
  \/ \E t \in Texts :
       AuthorFromText(CreateLambda(t[1], computation),
                      Native("CreateLambda", <<t[1], computation>>))
AuthorCall ==
  \E p \in Pairs : Author(CreateCall(p[1], p[2]), Native("CreateCall", p))
AuthorStruct ==
  \E list \in Lists :
    Author(CreateStruct(list), Native("CreateStruct", <<list>>))
AuthorSelection ==
  \E i \in 0 .. 1 : Author(CreateSelection(computation, i),
                           Native("CreateSelection", <<computation, i>>))
\* A traced function of Python ends as a block; two locals, the second of which
\* hides a name. Java has no constructor of it and reads it from a file.
AuthorBlock ==
  \E p \in Pairs :
    LET block == Block(<<Local("y", p[1]), Local("arg", p[2])>>,
                       CreateCall(CreateReference("y"), x))
    IN  Author(block, block)
AuthorRepeat ==
  \E n \in {0, 2} : Author(CreateRepeat(n, computation),
                           Native("CreateRepeat", <<n, computation>>))
AuthorWhile ==
  \E p \in Pairs : Author(CreateWhile(p[1], p[2]), Native("CreateWhile", p))
AuthorRepeatedConditionalChain ==
  \E list \in Lists :
    Author(CreateRepeatedConditionalChain(2, list),
           Native("CreateRepeatedConditionalChain", <<2, list>>))
AuthorBreakableChain ==
  \E list \in Lists :
    Author(CreateBreakableChain(list), Native("CreateBreakableChain", <<list>>))
AuthorSerialChain ==
  \E list \in Lists :
    Author(CreateSerialChain(list), Native("CreateSerialChain", <<list>>))
AuthorParallelMap ==
  Author(CreateParallelMap(computation),
         Native("CreateParallelMap", <<computation>>))
AuthorFallback ==
  \E list \in Lists :
    Author(CreateFallback(list), Native("CreateFallback", <<list>>))
AuthorConditional ==
  \E p \in Pairs :
    LET answers == CreateCall(IsAnswer, x)
    IN  Author(CreateConditional(answers, p[1], p[2]),
               Native("CreateConditional", <<answers, p[1], p[2]>>))
AuthorLambdaForConditional ==
  \E p \in Pairs :
    Author(CreateLambdaForConditional(IsAnswer, p[1], p[2]),
           Native("CreateLambdaForConditional", <<IsAnswer, p[1], p[2]>>))
\* These two have no constructor in Java either.
AuthorPromptTemplateWithParameters ==
  LET prompt == CreatePromptTemplateWithParameters(Template, <<"{x}", "{y}">>)
      chain == CreateSerialChain(<<computation, prompt>>)
  IN  Author(chain, chain)
AuthorDelegate ==
  LET delegate == Delegate(<<"cloud">>, computation) IN Author(delegate, delegate)

\* A traced function ends as a lambda of its argument; see tracing_decorator.py.
Trace ==
  /\ steps <= MaxSteps
  /\ steps' = MaxSteps + 1
  /\ outcome = NotRun
  /\ computation # Null
  /\ computation' = CreateLambda("arg", computation)
  /\ authored' = computation'
  /\ UNCHANGED <<language, input, outcome, meaning>>

\* Only a computation without free names means something.
Ran(arg, returned, by) ==
  /\ outcome = NotRun
  /\ computation # Null
  /\ Closed(computation)
  /\ input' = arg
  /\ language' = by
  /\ outcome' = returned
  /\ meaning' = Meant!Meaning(computation, arg)
  /\ UNCHANGED <<computation, steps, authored>>

RunIt(values) ==
  LET arg == IF values = <<>> THEN <<>> ELSE <<ToValue(values)>>
  IN  Ran(arg, Run(computation, arg), "C++")

\* A Java program must have been able to read it, and gives one text.
RunItFromJava(values) ==
  /\ Received(computation) = computation
  /\ Len(values) = 1 /\ values[1].case = "str"
  /\ Ran(values, call(computation, values[1].str), "Java")

Next ==
  \/ AuthorModelInference \/ AuthorModelInferenceWithConfig
  \/ AuthorPromptTemplate \/ AuthorInjaTemplate \/ AuthorCustomFunction
  \/ AuthorWolframAlpha \/ AuthorRestCall
  \/ AuthorRegexPartialMatch \/ AuthorReference
  \/ AuthorLogicalNot \/ AuthorLogger \/ AuthorPromptTemplateWithParameters
  \/ AuthorLambda \/ AuthorCall \/ AuthorStruct \/ AuthorSelection
  \/ AuthorBlock \/ AuthorRepeat \/ AuthorWhile
  \/ AuthorRepeatedConditionalChain \/ AuthorBreakableChain
  \/ AuthorSerialChain \/ AuthorParallelMap \/ AuthorFallback
  \/ AuthorConditional \/ AuthorLambdaForConditional \/ AuthorDelegate
  \/ Trace
  \/ \E values \in Arguments : RunIt(values) \/ RunItFromJava(values)

Spec == Init /\ [][Next]_vars

-----------------------------------------------------------------------------
(* Properties *)

\* The calls of inline intrinsics are made concurrently: how often each one
\* was made is what counts.
Times(calls, c) == Cardinality({i \in DOMAIN calls : calls[i] = c})
SameCalls(r, s) ==
  \A c \in ToSet(r.calls) \cup ToSet(s.calls) : Times(r.calls, c) = Times(s.calls, c)

\* The run came to an end, and no lambda was handed out without the values
\* of the names it uses.
Comparable ==
  /\ language = "C++"
  /\ outcome.status \in {"ok", "fail"}
  /\ Closed(outcome.value)
  /\ \A n \in DOMAIN outcome.calls : Closed(outcome.calls[n].arg)

Agrees ==
  Comparable => /\ outcome.status = meaning.status
                /\ IsOk(outcome) => Meant!Desugar(outcome.value) = meaning.value

\* A run returns what the computation means, and fails exactly if that is an
\* error: scopes, blocks, selections, loops, chains, conditional and fallback,
\* in Evaluate and in the ExecuteCall of every control-flow intrinsic. Not
\* claimed of runs on which something got lost; those have properties below.
RunsAsMeant == outcome.lost = {} => Agrees

\* intrinsic_uris.h: alternatives and candidates are evaluated lazily, loops
\* and chains call in turn. A successful run calls every model with the same
\* inputs and as often as the meaning does: never for a branch not taken, a
\* candidate not reached or a link after the break, and never twice.
CallsAsMeant ==
  (outcome.lost = {} /\ Comparable /\ IsOk(outcome)) => SameCalls(outcome, meaning)

\* A chain of no functions, which the constructors make without complaint.
EmptyChain(intr) ==
  \/ intr.uri \in {"serial_chain", "breakable_chain"} /\ Params(intr) = <<>>
  \/ intr.uri = "repeated_conditional_chain" /\ Len(Params(intr)) = 1

\* The constructors of constructor.cc produce only intrinsics that have a
\* handler. The handler's CheckWellFormed accepts every one of them but a chain
\* of no functions, which it refuses only when the computation runs
\* (constructor.cc:239-283, serial_chain.cc:28, breakable_chain.cc:28,
\* repeated_conditional_chain.cc:30); a fallback without candidates is accepted.
AuthoredIsWellFormed ==
  \A intr \in IntrinsicsIn(computation) :
    HasHandler(intr) /\ (CheckWellFormed(intr) <=> ~EmptyChain(intr))

\* Runner.call in Java returns the text that the computation means. Whatever
\* else it means, an error included, the program gets an empty text or, if the
\* run fails before there is a value to materialize, is gone: the error never
\* comes out as some other text.
JavaGetsTheText ==
  (/\ language = "Java"
   /\ outcome.lost = {}
   /\ outcome.status # "cut"
   /\ \A n \in DOMAIN outcome.calls : Closed(outcome.calls[n].arg)) =>
  IF IsOk(meaning)
  THEN outcome = [outcome EXCEPT
                    !.status = "ok",
                    !.value = Str(IF Parses(meaning.value)
                                  THEN StrOf(meaning.value) ELSE <<>>)]
  ELSE outcome.status = "crash" \/ outcome.value = Str(<<>>)

RECURSIVE CharactersIn(_)
CharactersIn(v) ==
  (CASE v.case = "str" -> ToSet(v.str)
     [] v.case = "reference" -> {v.name}
     [] v.case = "lambda" -> {v.parameter_name}
     [] OTHER -> {})
    \cup UNION {CharactersIn(part[1]) : part \in Inside(v)}

\* What the constructors make of an empty list, and the JNI functions refuse.
OfNothing ==
  {CreateStruct(<<>>), CreateFallback(<<>>), CreateSerialChain(<<>>),
   CreateBreakableChain(<<>>), CreateRepeatedConditionalChain(2, <<>>)}

\* A Java program gets the computation that the same calls make in C++, or
\* null. It gets null only if a name or text has a character that JNI strings
\* write differently, if the proto is nested too deep for a parser, or from
\* an empty list: no part is ever lost or replaced on the way through the JNI
\* functions, and nothing else is refused.
AuthoredAlike ==
  computation # authored =>
    /\ computation = Null
    /\ \/ CharactersIn(authored) \cap Special # {}
       \/ ~Parses(authored)
       \/ authored \in OfNothing

\* docs/ir.md: names follow the usual rules. A name in a lambda that is an
\* element mapped by parallel_map, or the state of a repeated conditional
\* chain, means what it meant where the lambda was written.
LexicallyScoped == outcome.lost = {"scope"} => Agrees

===============================================================================
