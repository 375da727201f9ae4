------------------------------- MODULE Executor -------------------------------
(***************************************************************************)
(* What ExecutorInterface of genc/cc/runtime/executor.h promises, whatever *)
(* the executor behind it: a created value is computed asynchronously, is  *)
(* resolved once, and succeeds only if every operand it was created from   *)
(* did; materializing waits for it; giving up a handle never disturbs a    *)
(* value that was created from it. InlineExecutor and RemoteExecutor are   *)
(* shown to implement this specification.                                  *)
(***************************************************************************)
EXTENDS Integers, Sequences

CONSTANTS
  Vals,     \* the values that may be created
  NoVal     \* none of them

VARIABLES
  status,   \* none, pending, ok or error
  operands, \* the values each value was created from, in order
  held,     \* the values the client holds an OwnedValueId of
  answer    \* the last value that was materialized with success

vars == <<status, operands, held, answer>>

TypeOK ==
  /\ status \in [Vals -> {"none", "pending", "ok", "error"}]
  /\ operands \in [Vals -> Seq(Vals)]
  /\ held \subseteq Vals
  /\ answer \in Vals \cup {NoVal}

Init ==
  /\ status = [v \in Vals |-> "none"]
  /\ operands = [v \in Vals |-> <<>>]
  /\ held = {}
  /\ answer = NoVal

\* CreateValue, CreateCall, CreateStruct, CreateSelection. The work is under
\* way when they return, or it could not be started.
Create(v) ==
  /\ status[v] = "none"
  /\ \E st \in {"pending", "error"} : status' = [status EXCEPT ![v] = st]
  /\ operands'[v] \in Seq(held)
  /\ operands' = [operands EXCEPT ![v] = operands'[v]]
  /\ held' = held \cup {v}
  /\ UNCHANGED answer

OperandsOk(v) == \A n \in 1 .. Len(operands[v]) : status[operands[v][n]] = "ok"

Resolve(v) ==
  /\ status[v] = "pending"
  /\ \/ OperandsOk(v) /\ status' = [status EXCEPT ![v] = "ok"]
     \/ status' = [status EXCEPT ![v] = "error"]
  /\ UNCHANGED <<operands, held, answer>>

\* Only a value that was computed can be materialized with success (an error
\* leaves no trace: the transfer itself may fail too).
Materialize(v) ==
  /\ v \in held
  /\ status[v] = "ok"
  /\ answer' = v
  /\ UNCHANGED <<status, operands, held>>

\* Dispose, and the end of the executor, which disposes of everything.
Release ==
  /\ held' \in SUBSET held
  /\ UNCHANGED <<status, operands, answer>>

Next ==
  \/ \E v \in Vals : Create(v) \/ Resolve(v) \/ Materialize(v)
  \/ Release

\* The work of a created value is done without the client's help.
Spec == Init /\ [][Next]_vars /\ \A v \in Vals : WF_vars(Resolve(v))
===============================================================================
