---------------------------- MODULE MCComputations ----------------------------
(***************************************************************************)
(* The values that Computations.cfg and its variants author from.          *)
(***************************************************************************)
EXTENDS Computations

a == Str(<<"a">>)
Model == CreateModelInference(<<"test_model">>)
NoModel == CreateModelInference(<<"no_model">>)
Pairing == CreateLambda("arg", CreateStruct(<<x, a>>))

\* Data, a name, functions, and lambdas with and without names from outside.
MCStarts ==
  {a, x, Model, CreateLogicalNot, CreateLambda("y", x),
   CreateLambda("arg", CreateCall(x, a)), Pairing,
   CreatePromptTemplate(<<"{x}", "b">>), CreateCustomFunction(<<"nowhere">>)}

\* A model, a function, templates with a parameter, and a text that JNI strings
\* write differently.
MCTexts ==
  {<<"test_model">>, <<"append_foo">>, <<"{x}", "b">>, <<"{{x}}", "b">>,
   <<"{{y}}">>, <<"smile">>}
MCUrls == {<<"service">>, <<"elsewhere">>}
MCSpecial == {"smile"}

\* Configurations with and without the optional parts, and one that is none.
MCConfigs ==
  {CreateRestModelConfig(<<"endpoint">>, <<>>),
   CreateRestModelConfigWithJsonRequestTemplate(<<"endpoint">>, <<"key">>, <<"json">>),
   CreateLlamaCppConfig(<<"path">>, 4, 16), Boolean(TRUE)}

\* With a model that answers, one that does not exist, a predicate that a
\* model makes true.
MCParts == {x, Model, NoModel, IsAnswer}

\* None, one, and two, which become a struct.
MCArguments == {<<>>, <<a>>, <<a, Model>>}

\* A lambda that remembers an argument, and a map that calls what it is given.
Remembering == CreateCall(CreateLambda("arg", CreateLambda("y", x)), Str(<<"b">>))
Calling == CreateParallelMap(CreateLambda("arg", CreateCall(x, a)))
ScopingStarts == {Remembering}
ScopingParts == {Remembering, Calling}
===============================================================================
