------------------------------ MODULE JavaRuntime -----------------------------
(***************************************************************************)
(* Running a computation from Java: Runner.java and Executor.java in       *)
(* genc/java/src/java/org/genc/runtime, over JNI (genc/java/src/native/    *)
(* org/genc/runtime) and the C API (genc/c/runtime/c_api.cc), above the    *)
(* executor of module ControlFlowExecutor.                                 *)
(*                                                                         *)
(* Java knows an OwnedValueId by its address, and null is the address 0.   *)
(* Here the handle is the value it stands for, or Null. Java has parsed    *)
(* the computation it sends, so C++, with the same limit, can too.         *)
(***************************************************************************)
EXTENDS ControlFlowExecutor, JavaConstructor

\* An error is null, and the address 0 in Java; nothing says what it was.
OrNull(r) == IF r.status = "fail" THEN After(r, Ok(Null)) ELSE r

createValue(value) == OrNull(ConstCreateExecutorValue(value))

\* Plausible mistake: both parameters are numbers, and are confused.
createCall_Swapped(function, arg) == OrNull(ConstCreateCall(arg, <<function>>))

createCall(function, arg) == OrNull(ConstCreateCall(function, <<arg>>))

\* The id is read from the address without a test.
GC_GetValue(handle) == IF handle = Null THEN Crash ELSE Ok(handle)

\* After an error the buffer stays empty, and no bytes are a proto too: the
\* value of which no case is set.
GC_materialize(value) ==
  LET r == Materialize(value)
  IN  IF r.status = "fail" THEN After(r, Ok(Unset)) ELSE r

\* An exception of the parser ends in an empty text.
materialize(value) ==
  Try(GC_materialize(value), LAMBDA bytes :
      Ok(IF Parses(bytes) THEN bytes ELSE Str(<<>>)))

\* Runner.create(computation).call(str): getStr() of any other value is "".
call(computation, str) ==
  Try(createValue(computation), LAMBDA computationVal :
      Try(createValue(Str(str)), LAMBDA argVal :
          Try(GC_GetValue(computationVal), LAMBDA fn :
              Try(GC_GetValue(argVal), LAMBDA arg :
                  Try(createCall(fn, arg), LAMBDA resultVal :
                      Try(Try(GC_GetValue(resultVal), materialize), LAMBDA result :
                          Ok(Str(StrOf(result)))))))))
===============================================================================
