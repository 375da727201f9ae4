---------------------------------- MODULE IR ----------------------------------
(***************************************************************************)
(* The intermediate representation (genc/proto/v0/computation.proto) and   *)
(* the authoring constructors of genc/cc/authoring/constructor.cc.         *)
(*                                                                         *)
(* A v0::Value is a record whose field "case" is its value_case; the other *)
(* fields are named after the proto's. A string is a sequence of tokens,   *)
(* an optional message a sequence of length at most one. Labels are left   *)
(* out: of the executors only a prompt template with several parameters   *)
(* reads them, which is not modelled for arguments with labels.            *)
(***************************************************************************)
EXTENDS Naturals, Sequences, SequencesExt, FiniteSetsExt

Str(s) == [case |-> "str", str |-> s]
Boolean(b) == [case |-> "boolean", boolean |-> b]
Int32(n) == [case |-> "int_32", int_32 |-> n]
Intrinsic(uri, static) ==
  [case |-> "intrinsic", uri |-> uri, static_parameter |-> static]
Block(locals, result) == [case |-> "block", local |-> locals, result |-> result]
Local(name, value) == [name |-> name, value |-> value]

\* A v0::Value of which no case is set.
Unset == [case |-> "none"]

\* Not a v0::Value: the status a value of the child executor resolves to when
\* the work behind it fails. It surfaces when the value is materialized.
ErrorPb == [case |-> "error"]

-----------------------------------------------------------------------------
(* Constructors *)

CreateReference(name) == [case |-> "reference", name |-> name]
CreateLambda(param, body) ==
  [case |-> "lambda", parameter_name |-> param, result |-> body]
CreateCall(fn, arg) == [case |-> "call", function |-> fn, argument |-> <<arg>>]
CreateStruct(values) == [case |-> "struct", element |-> values]
CreateSelection(source, index) ==
  [case |-> "selection", source |-> source, index |-> index]

\* An intrinsic whose static parameter is a struct of the given values.
WithStruct(uri, values) == Intrinsic(uri, <<CreateStruct(values)>>)

CreateModelInference(uri) == Intrinsic("model_inference", <<Str(uri)>>)
CreateRegexPartialMatch(pattern) ==
  Intrinsic("regex_partial_match", <<Str(pattern)>>)
CreateLogicalNot == Intrinsic("logical_not", <<>>)
CreateCustomFunction(uri) == Intrinsic("custom_function", <<Str(uri)>>)
CreateLogger == Intrinsic("logger", <<>>)
CreatePromptTemplate(template) == Intrinsic("prompt_template", <<Str(template)>>)
CreateInjaTemplate(template) == Intrinsic("inja_template", <<Str(template)>>)
CreateWolframAlpha(appid) == Intrinsic("wolfram_alpha", <<Str(appid)>>)
CreateRestCall(uri, api_key, method) ==
  WithStruct("rest_call", <<Str(method), Str(uri), Str(api_key)>>)
\* Refused with fewer than two parameters.
CreatePromptTemplateWithParameters(template, parameters) ==
  WithStruct("prompt_template_with_parameters",
             <<Str(template),
               CreateStruct([i \in DOMAIN parameters |-> Str(<<parameters[i]>>)])>>)

\* Model configurations. With neither an API key nor a template a REST model
\* is configured by a string, its endpoint.
CreateRestModelConfig(endpoint, api_key) ==
  IF api_key = <<>> THEN Str(endpoint)
  ELSE CreateStruct(<<Str(endpoint), Str(api_key)>>)
\* mutable_struct_ on a string replaces it by an empty struct.
CreateRestModelConfigWithJsonRequestTemplate(endpoint, api_key, template) ==
  LET config == CreateRestModelConfig(endpoint, api_key)
  IN  CreateStruct(Append(IF config.case = "struct" THEN config.element ELSE <<>>,
                          Str(template)))
CreateLlamaCppConfig(model_path, num_threads, max_tokens) ==
  CreateStruct(<<Str(model_path), Int32(num_threads), Int32(max_tokens)>>)
\* A configuration of any other case is dropped.
CreateModelInferenceWithConfig(uri, config) ==
  WithStruct("model_inference_with_config",
             <<Str(uri), IF config.case \in {"struct", "str"} THEN config ELSE Unset>>)

\* Plausible mistake: the number of steps is not put into the struct.
CreateRepeat_NoSteps(n, body) == WithStruct("repeat", <<body>>)
CreateRepeat(n, body) == WithStruct("repeat", <<Int32(n), body>>)
CreateWhile(condition, body) == WithStruct("while", <<condition, body>>)
CreateRepeatedConditionalChain(n, fns) ==
  WithStruct("repeated_conditional_chain", <<Int32(n)>> \o fns)
CreateBreakableChain(fns) == WithStruct("breakable_chain", fns)
CreateSerialChain(fns) == WithStruct("serial_chain", fns)
CreateParallelMap(fn) == Intrinsic("parallel_map", <<fn>>)
CreateFallback(fns) == WithStruct("fallback", fns)
CreateConditional(condition, positive, negative) ==
  CreateCall(WithStruct("conditional", <<positive, negative>>), condition)
CreateLambdaForConditional(condition, positive, negative) ==
  LET arg == CreateReference("arg")
  IN  CreateLambda("arg", CreateConditional(CreateCall(condition, arg),
                                            CreateCall(positive, arg),
                                            CreateCall(negative, arg)))

\* No constructor: Python programs build it from the intrinsic's name.
Delegate(environment, fn) == WithStruct("delegate", <<Str(environment), fn>>)

\* Several values are given as a struct, a single one as it is. (What the other
\* overloads make of a C++ value is Str, Boolean and Int32.)
ToValue(values) == IF Len(values) = 1 THEN values[1] ELSE CreateStruct(values)

-----------------------------------------------------------------------------
(* Names *)

\* The values directly inside v, with the name each one is in the scope of.
Inside(v) ==
  CASE v.case = "lambda" -> {<<v.result, {v.parameter_name}>>}
    [] v.case = "call" -> {<<v.function, {}>>} \cup (Range(v.argument) \X {{}})
    [] v.case = "struct" -> Range(v.element) \X {{}}
    [] v.case = "selection" -> {<<v.source, {}>>}
    [] v.case = "intrinsic" -> Range(v.static_parameter) \X {{}}
    [] v.case = "block" ->
         LET before(i) == {v.local[j].name : j \in 1 .. i - 1}
         IN  {<<v.local[i].value, before(i)>> : i \in DOMAIN v.local}
               \cup {<<v.result, before(Len(v.local) + 1)>>}
    [] OTHER -> {}

RECURSIVE FreeNames(_)
FreeNames(v) ==
  IF v.case = "reference" THEN {v.name}
  ELSE UNION {FreeNames(part[1]) \ part[2] : part \in Inside(v)}

\* The intrinsics anywhere in v.
RECURSIVE IntrinsicsIn(_)
IntrinsicsIn(v) ==
  (IF v.case = "intrinsic" THEN {v} ELSE {})
    \cup UNION {IntrinsicsIn(part[1]) : part \in Inside(v)}
===============================================================================
