------------------------------- MODULE Outcomes -------------------------------
(***************************************************************************)
(* absl::StatusOr and GENC_TRY (genc/cc/runtime/status_macros.h): what an  *)
(* operation returns, with the calls of inline intrinsics made so far.     *)
(***************************************************************************)
EXTENDS Naturals, Sequences

\* status ok: value is the result. fail: a status that is not OK.
\* crash: the program is gone (an exception nobody catches, or worse).
\* cut: a while loop reached the bound of the model.
\* lost is a ghost, the ways in which something got lost on the way (see
\* ControlFlowExecutor): "scope", a value rebuilt from its proto used names
\* bound outside it; "parameter", a lambda called without an argument found
\* its parameter's name outside; "argument", delegate dropped its argument;
\* "unset", a value of which no case is set could not be created again.
Returned(status, value) ==
  [status |-> status, value |-> value, calls |-> <<>>, lost |-> {}]

Nothing == [case |-> "none"]
Ok(value) == Returned("ok", value)
Fail == Returned("fail", Nothing)
Crash == Returned("crash", Nothing)
Cut == Returned("cut", Nothing)

IsOk(r) == r.status = "ok"

Lossy(r, ways) == [r EXCEPT !.lost = @ \cup ways]

\* r happened before next.
After(r, next) ==
  [next EXCEPT !.calls = r.calls \o @, !.lost = r.lost \cup @]

\* GENC_TRY(r) followed by Then(value of r).
Try(r, Then(_)) == IF IsOk(r) THEN After(r, Then(r.value)) ELSE r
===============================================================================
