---------------------------- MODULE JavaConstructor ---------------------------
(***************************************************************************)
(* Authoring in Java: genc/java/src/native/org/genc/authoring/             *)
(* constructor.cc, the JNI functions behind the native methods of          *)
(* Constructor.java. Values cross the boundary in both directions as       *)
(* serialized protos, names and texts as JNI strings, and every error      *)
(* becomes null.                                                           *)
(*                                                                         *)
(* A proto in wire format is written as the value itself. What can go      *)
(* wrong is parsing it: a string that is not UTF-8, or messages nested     *)
(* too deep for the parsers of C++ and of Java, which have the same limit. *)
(***************************************************************************)
EXTENDS IR

CONSTANTS
  RecursionLimit,   \* messages that may be nested in the one that is parsed
  Special           \* characters whose modified UTF-8 is not UTF-8

ASSUME JavaAssumption == RecursionLimit \in Nat /\ "invalid" \notin Special

Null == [case |-> "null"]

-----------------------------------------------------------------------------
(* Strings and protos *)

\* Modified UTF-8, which GetStringUTFChars returns, writes NUL in two bytes and
\* a character beyond the first 2^16 as two surrogates, which is not UTF-8.
GetString(s) ==
  [i \in DOMAIN s |-> IF s[i] \in Special THEN "invalid" ELSE s[i]]
GetName(name) == GetString(<<name>>)[1]

IsUtf8(s) == "invalid" \notin Range(s)

\* ParseFromArray and Value.parseFrom of v, if n more messages may be nested.
\* A value that is not plain data has a message for its case, and that one the
\* values in it; those of a block's locals are in a message each.
RECURSIVE ParsesWithin(_, _)
ParsesWithin(v, n) ==
  LET all(values, m) ==
        \A i \in DOMAIN values : m >= 0 /\ ParsesWithin(values[i], m)
  IN
  CASE v.case = "str" -> IsUtf8(v.str)
    [] v.case = "reference" -> n >= 1 /\ IsUtf8(<<v.name>>)
    [] v.case = "lambda" -> IsUtf8(<<v.parameter_name>>) /\ all(<<v.result>>, n - 2)
    [] v.case = "call" -> all(<<v.function>> \o v.argument, n - 2)
    [] v.case = "struct" -> n >= 1 /\ all(v.element, n - 2)
    [] v.case = "selection" -> all(<<v.source>>, n - 2)
    [] v.case = "intrinsic" -> n >= 1 /\ all(v.static_parameter, n - 2)
    [] v.case = "block" ->
         /\ all(<<v.result>>, n - 2)
         /\ all([i \in DOMAIN v.local |-> v.local[i].value], n - 3)
    [] OTHER -> TRUE

Parses(v) == ParsesWithin(v, RecursionLimit)

\* Serializing does not fail: the C++ runtime only logs a string that is not
\* UTF-8, and Java has no such strings. Constructor.java parses what it gets.
Received(bytes) == IF bytes # Null /\ Parses(bytes) THEN bytes ELSE Null

\* Plausible mistake: an element that does not parse is left out of the list.
GetValueVectorFromJavaList_Skips(list) == SelectSeq(list, Parses)

\* An error in one element leaves an empty list.
GetValueVectorFromJavaList(list) ==
  IF \A i \in DOMAIN list : Parses(list[i]) THEN list ELSE <<>>

-----------------------------------------------------------------------------
(* Constructors *)

GC_create_model_inference(uri) == CreateModelInference(GetString(uri))
GC_create_model_inference_with_config(uri, config) ==
  IF Parses(config) THEN CreateModelInferenceWithConfig(GetString(uri), config)
  ELSE Null
GC_create_prompt_template(template) == CreatePromptTemplate(GetString(template))
GC_create_inja_template(template) == CreateInjaTemplate(GetString(template))
GC_create_wolfram_alpha(app_id) == CreateWolframAlpha(GetString(app_id))
GC_create_custom_function(uri) == CreateCustomFunction(GetString(uri))
GC_create_regex_partial_match(pattern) ==
  CreateRegexPartialMatch(GetString(pattern))
GC_create_logical_not == CreateLogicalNot
GC_create_logger == CreateLogger
GC_create_reference(name) == CreateReference(GetName(name))
GC_create_lambda(name, body) ==
  IF Parses(body) THEN CreateLambda(GetName(name), body) ELSE Null
GC_create_call(fn, arg) ==
  IF Parses(fn) /\ Parses(arg) THEN CreateCall(fn, arg) ELSE Null
GC_create_selection(source, index) ==
  IF Parses(source) THEN CreateSelection(source, index) ELSE Null
GC_create_repeat(num_steps, body) ==
  IF Parses(body) THEN CreateRepeat(num_steps, body) ELSE Null
GC_create_while(condition, body) ==
  IF Parses(condition) /\ Parses(body) THEN CreateWhile(condition, body) ELSE Null
GC_create_parallel_map(map) == IF Parses(map) THEN CreateParallelMap(map) ELSE Null
GC_create_conditional(condition, positive, negative) ==
  IF Parses(condition) /\ Parses(positive) /\ Parses(negative)
  THEN CreateConditional(condition, positive, negative) ELSE Null
GC_create_lambda_for_conditional(condition, positive, negative) ==
  IF Parses(condition) /\ Parses(positive) /\ Parses(negative)
  THEN CreateLambdaForConditional(condition, positive, negative) ELSE Null

\* A list that is empty, or that could not be read, is refused.
GC_create_struct(list) ==
  LET values == GetValueVectorFromJavaList(list)
  IN  IF values = <<>> THEN Null ELSE CreateStruct(values)
GC_create_fallback(list) ==
  LET fns == GetValueVectorFromJavaList(list)
  IN  IF fns = <<>> THEN Null ELSE CreateFallback(fns)
GC_create_serial_chain(list) ==
  LET fns == GetValueVectorFromJavaList(list)
  IN  IF fns = <<>> THEN Null ELSE CreateSerialChain(fns)
GC_create_breakable_chain(list) ==
  LET fns == GetValueVectorFromJavaList(list)
  IN  IF fns = <<>> THEN Null ELSE CreateBreakableChain(fns)
GC_create_repeated_conditional_chain(num_steps, list) ==
  LET fns == GetValueVectorFromJavaList(list)
  IN  IF fns = <<>> THEN Null ELSE CreateRepeatedConditionalChain(num_steps, fns)

\* What the native method of Constructor.java returns that is called with args.
Native(method, args) ==
  LET a == args[1]
      b == args[2]
      c == args[3]
  IN
  CASE method = "CreateModelInference" -> GC_create_model_inference(a)
    [] method = "CreateModelInferenceWithConfig" ->
         GC_create_model_inference_with_config(a, b)
    [] method = "CreatePromptTemplate" -> GC_create_prompt_template(a)
    [] method = "CreateInjaTemplate" -> GC_create_inja_template(a)
    [] method = "CreateCustomFunction" -> GC_create_custom_function(a)
    [] method = "CreateRegexPartialMatch" -> GC_create_regex_partial_match(a)
    [] method = "CreateWolframAlpha" -> GC_create_wolfram_alpha(a)
    [] method = "CreateLogicalNot" -> GC_create_logical_not
    [] method = "CreateLogger" -> GC_create_logger
    [] method = "CreateReference" -> GC_create_reference(a)
    [] method = "CreateLambda" -> GC_create_lambda(a, b)
    [] method = "CreateCall" -> GC_create_call(a, b)
    [] method = "CreateSelection" -> GC_create_selection(a, b)
    [] method = "CreateRepeat" -> GC_create_repeat(a, b)
    [] method = "CreateWhile" -> GC_create_while(a, b)
    [] method = "CreateParallelMap" -> GC_create_parallel_map(a)
    [] method = "CreateConditional" -> GC_create_conditional(a, b, c)
    [] method = "CreateLambdaForConditional" ->
         GC_create_lambda_for_conditional(a, b, c)
    [] method = "CreateStruct" -> GC_create_struct(a)
    [] method = "CreateFallback" -> GC_create_fallback(a)
    [] method = "CreateSerialChain" -> GC_create_serial_chain(a)
    [] method = "CreateBreakableChain" -> GC_create_breakable_chain(a)
    [] method = "CreateRepeatedConditionalChain" ->
         GC_create_repeated_conditional_chain(a, b)
===============================================================================
