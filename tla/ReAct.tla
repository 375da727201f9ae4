--------------------------------- MODULE ReAct --------------------------------
(***************************************************************************)
(* The custom functions of genc/cc/modules/agents/react.cc through which a *)
(* chain of computations reads what a model wrote. A text is a sequence of *)
(* lines, and a line is what the patterns tell apart:                      *)
(*   thought      Thought: ...                                             *)
(*   math         Action: Math[...]                                        *)
(*   finish       Action: Finish[...]                                      *)
(*   bare         Finish[...] that is not after Action:                    *)
(*   observation  Observation: ...                                         *)
(*   question     what the user asks; any other text is no line at all     *)
(***************************************************************************)
EXTENDS SequencesExt, Naturals

Lines == {"thought", "math", "finish", "bare", "observation", "question"}

Has(text, lines) == \E n \in 1 .. Len(text) : text[n] \in lines

\* RE2::PartialMatch finds the first match.
FirstOf(text, lines) ==
  IF Has(text, lines)
  THEN <<text[CHOOSE n \in 1 .. Len(text) :
                /\ text[n] \in lines
                /\ \A i \in 1 .. (n - 1) : text[i] \notin lines]>>
  ELSE <<>>

BeforeFirstObservationOrOriginalText(text) ==
  SubSeq(text, 1, Cardinality({n \in 1 .. Len(text) :
    \A i \in 1 .. n : text[i] # "observation"}))

ExtractFinish(text) ==
  IF Has(text, {"finish", "bare"}) THEN <<"finish">> ELSE <<>>

ParseThoughtAction(text) ==
  LET sanitized_input == BeforeFirstObservationOrOriginalText(text)
      thought == FirstOf(sanitized_input, {"thought"})
      action == FirstOf(sanitized_input, {"math", "finish"})
  IN thought \o (IF action = <<>> THEN ExtractFinish(sanitized_input) ELSE action)

\* The math question of a text; none is the empty text, not an error.
ExtractMathQuestion(text) ==
  IF Has(text, {"math"}) THEN <<"question">> ELSE <<>>

FormatObservation(text) == <<"observation">>

\* The condition that ends the loop of genc/python/examples/math_tool_agent.py.
RegexPartialMatchFinish(text) == Has(text, {"finish", "bare"})
===============================================================================
