------------------------------ MODULE Intrinsics ------------------------------
(***************************************************************************)
(* The intrinsics of genc/cc/intrinsics as both executors see them: which  *)
(* ones have a handler, which interface it has, when CheckWellFormed       *)
(* accepts one, and what the inline ones compute.                          *)
(***************************************************************************)
EXTENDS IR, FiniteSets

\* intrinsic_uris.h, but for the confidential computation, which has a module
\* of its own.
InlineUris ==
  {"model_inference", "model_inference_with_config", "regex_partial_match",
   "logical_not", "custom_function", "logger", "prompt_template",
   "prompt_template_with_parameters", "inja_template", "rest_call",
   "wolfram_alpha"}
ControlFlowUris ==
  {"while", "repeat", "conditional", "fallback", "serial_chain",
   "breakable_chain", "repeated_conditional_chain", "parallel_map", "delegate"}

\* CreateCompleteHandlerSet adds all of them but one, and then the custom ones
\* of its configuration, which is Wolfram Alpha in every executor stack.
CompleteHandlerSet(custom) ==
  ((InlineUris \cup ControlFlowUris) \ {"wolfram_alpha"}) \cup custom

HasHandler(intr) == intr.uri \in CompleteHandlerSet({"wolfram_alpha"})

\* The elements of the static parameter; reading an unset struct gives none.
Params(intr) ==
  IF intr.static_parameter # <<>> /\ intr.static_parameter[1].case = "struct"
  THEN intr.static_parameter[1].element ELSE <<>>

StaticCase(intr) ==
  IF intr.static_parameter = <<>> THEN "none" ELSE intr.static_parameter[1].case

\* A template and at least two names.
AcceptsParameters(params) ==
  /\ Len(params) = 2
  /\ params[1].case = "str"
  /\ params[2].case = "struct" /\ Len(params[2].element) >= 2
  /\ \A name \in ToSet(params[2].element) : name.case = "str"

CheckWellFormed(intr) ==
  LET size == Len(Params(intr)) IN
  CASE intr.uri \in {"while", "repeat", "conditional"} -> size = 2
    [] intr.uri \in {"serial_chain", "breakable_chain"} -> size >= 1
    [] intr.uri = "repeated_conditional_chain" -> size >= 2
    [] intr.uri = "parallel_map" -> intr.static_parameter # <<>>
    [] intr.uri = "delegate" -> size >= 1 /\ Params(intr)[1].case = "str"
    [] intr.uri \in {"model_inference", "regex_partial_match",
                     "custom_function", "prompt_template", "inja_template",
                     "wolfram_alpha"} ->
         StaticCase(intr) = "str"
    [] intr.uri = "rest_call" -> size >= 2
    [] intr.uri = "model_inference_with_config" ->
         StaticCase(intr) = "struct" /\ Params(intr)[1].case = "str"
    [] intr.uri = "prompt_template_with_parameters" ->
         AcceptsParameters(Params(intr))
    [] OTHER -> TRUE

\* str() of a value that has none is the empty string.
StrOf(v) == IF v.case = "str" THEN v.str ELSE <<>>

\* test_model answers with its input wrapped in a fixed text, here one token.
\* Any other model is not in inference_map_.
Inference(model_uri, arg) ==
  IF model_uri = <<"test_model">> THEN Str(Append(StrOf(arg), "answer")) ELSE ErrorPb

ModelInference(intr, arg) == Inference(intr.static_parameter[1].str, arg)
ModelInferenceWithConfig(intr, arg) == Inference(Params(intr)[1].str, arg)

\* function_map_ has one function, that of inline_executor_test.cc. A name that
\* is not in it is no error: the result is left as it was.
CustomFunction(intr, arg) ==
  IF intr.static_parameter[1].str = <<"append_foo">>
  THEN Str(Append(StrOf(arg), "foo")) ELSE Unset

\* The tokens that kParameterRe matches.
Placeholders == {"{x}", "{y}"}

\* StrReplaceAll: every token that has a replacement, all of them at once.
StrReplaceAll(template, replacements) ==
  FlattenSeq([i \in DOMAIN template |->
                IF template[i] \in DOMAIN replacements
                THEN replacements[template[i]] ELSE <<template[i]>>])

\* One placeholder stands for the argument. With none, or with several and
\* elements that have no labels, nothing is replaced.
PromptTemplate(intr, arg) ==
  LET template == intr.static_parameter[1].str
      found == ToSet(template) \cap Placeholders
  IN  IF Cardinality(found) # 1 THEN Str(template)
      ELSE IF arg.case # "str" THEN ErrorPb
      ELSE Str(StrReplaceAll(template, [p \in found |-> arg.str]))

\* The parameters stand for the elements of the argument, in their order.
PromptTemplateWithParameters(intr, arg) ==
  LET template == Params(intr)[1].str
      names == Params(intr)[2].element
      Position(p) == CHOOSE i \in DOMAIN names : names[i].str = <<p>>
  IN  IF \/ template = <<>> \/ arg.case # "struct"
         \/ Len(names) # Len(arg.element)
         \/ \E e \in ToSet(arg.element) : e.case # "str"
      THEN ErrorPb
      ELSE Str(StrReplaceAll(template,
                          [p \in {n.str[1] : n \in ToSet(names)} |->
                             arg.element[Position(p)].str]))

\* The texts that are JSON, with the value of each field the template engine
\* finds there; a field it does not find is an error of the rendering.
Json == [text \in {<<"a">>} |-> [field \in {"{{x}}"} |-> <<"b">>]]
JsonFields == {"{{x}}", "{{y}}"}

InjaTemplate(intr, arg) ==
  LET template == intr.static_parameter[1].str
      found == ToSet(template) \cap JsonFields
  IN  IF StrOf(arg) \notin DOMAIN Json THEN ErrorPb
      ELSE IF ~(found \subseteq DOMAIN Json[StrOf(arg)]) THEN ErrorPb
      ELSE Str(StrReplaceAll(template, Json[StrOf(arg)]))

\* The network: one service can be reached. It answers what it is asked, and
\* also answers whoever it refuses.
Reached(url) == url = <<"service">>
Response(api_key, request) ==
  IF api_key = <<>> THEN <<"refused">> ELSE Append(request, "response")

\* The body of any response is the result, whatever its status; only a transfer
\* that fails is an error. The key of a GET request is part of its URL.
Get(endpoint) ==
  IF Reached(endpoint) THEN Str(Response(<<"key">>, <<>>)) ELSE ErrorPb
Post(api_key, endpoint, json_request) ==
  IF Reached(endpoint) THEN Str(Response(api_key, json_request)) ELSE ErrorPb

RestCall(intr, arg) ==
  LET method == Params(intr)[1].str
      url == Params(intr)[2].str
  IN  CASE method = <<"GET">> -> Get(url)
        [] method = <<"POST">> -> Post(Params(intr)[3].str, url, StrOf(arg))
        [] OTHER -> ErrorPb

\* The client refuses an empty identifier or question with an empty answer,
\* and the handler takes an empty answer for an error.
WolframAlpha(intr, arg) ==
  LET appid == intr.static_parameter[1].str
  IN  IF <<>> \in {appid, StrOf(arg)} THEN ErrorPb
      ELSE Str(Response(appid, StrOf(arg)))

RegexPartialMatch(intr, arg) ==
  IF arg.case = "str"
  THEN Boolean(intr.static_parameter[1].str \in SubSeqs(arg.str)) ELSE ErrorPb

LogicalNot(intr, arg) ==
  IF arg.case = "boolean" THEN Boolean(~arg.boolean) ELSE ErrorPb

\* Printed, and handed on.
Logger(intr, arg) == arg

ExecuteInline(intr, arg) ==
  CASE intr.uri = "model_inference" -> ModelInference(intr, arg)
    [] intr.uri = "regex_partial_match" -> RegexPartialMatch(intr, arg)
    [] intr.uri = "logical_not" -> LogicalNot(intr, arg)
    [] intr.uri = "model_inference_with_config" -> ModelInferenceWithConfig(intr, arg)
    [] intr.uri = "custom_function" -> CustomFunction(intr, arg)
    [] intr.uri = "logger" -> Logger(intr, arg)
    [] intr.uri = "prompt_template" -> PromptTemplate(intr, arg)
    [] intr.uri = "prompt_template_with_parameters" ->
         PromptTemplateWithParameters(intr, arg)
    [] intr.uri = "inja_template" -> InjaTemplate(intr, arg)
    [] intr.uri = "rest_call" -> RestCall(intr, arg)
    [] intr.uri = "wolfram_alpha" -> WolframAlpha(intr, arg)
===============================================================================
