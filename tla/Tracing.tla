------------------------------- MODULE Tracing --------------------------------
(***************************************************************************)
(* Tracing: a function runs with references for arguments, and the calls   *)
(* it makes are recorded, as IR, by the context on top of a stack that is  *)
(* global to the process. In Python (authoring/tracing_decorator.py,       *)
(* authoring/tracing_context.py, base/context.py) and in C++ (genc/cc/     *)
(* authoring/tracing_context.cc, genc/cc/base/context.cc), whose contexts  *)
(* are pushed by hand.                                                     *)
(*                                                                         *)
(* A context names the IRs it has seen v_0, v_1, ... in a table. A call    *)
(* replaces its arguments and its function by references one at a time,    *)
(* and a replacement looks up the IR before it adds it: each is a step.    *)
(* IR is <<"fn", f>>, <<"ref", n>> (v_n, or arg for ARG), <<"sel", i>> (of *)
(* arg) or <<"call", n, <<operand names>>>>. What a value stands for when  *)
(* its function is simply run is its meaning, a ghost beside the IR.       *)
(***************************************************************************)
EXTENDS BiMap, Integers, Sequences, SequencesExt

CONSTANTS
  Threads,
  Callables,    \* computations and data that may be called or passed
  Arity,        \* of the function of each trace: its parameters
  MaxContexts,  \* bound: contexts ever pushed
  MaxDepth,     \* bound: traces of a thread, one inside the other
  MaxKnown      \* bound: values a thread holds when a call begins

ASSUME TracingAssumption ==
  /\ Threads # {}
  /\ MaxContexts \in Nat
  /\ MaxDepth \in Nat
  /\ MaxKnown \in Nat
  /\ Arity \in [1 .. MaxContexts -> Nat \ {0}]

ARG == -1
Contexts == 1 .. MaxContexts

VARIABLES
  language,  \* "python" or "cpp"
  stack,     \* _nested_contexts
  leaving,   \* Python threads that found their context on top and did not pop yet
  table,     \* of each context: _name_to_ir and _ir_str_to_name, name_to_ir_
  pushed,    \* contexts so far
  open,      \* of each thread: its traces under way, innermost last
  known,     \* of each thread: the values its functions hold
  work,      \* of each thread: the call under way
  ended,     \* history: what the traces returned
  mixed,     \* history: contexts that saw a call or a value of another trace
  overlapped \* history: two threads traced at the same time

stackVars == <<language, stack, leaving, pushed, open, overlapped>>
vars == <<stackVars, table, known, work, ended, mixed>>

NoWork == [kind |-> "none"]

Init ==
  /\ language \in {"python", "cpp"}
  /\ stack = <<>>
  /\ leaving = {}
  /\ table = [c \in Contexts |-> Empty]
  /\ pushed = 0
  /\ open = [t \in Threads |-> <<>>]
  /\ known = [t \in Threads |-> {}]
  /\ work = [t \in Threads |-> NoWork]
  /\ ended = {}
  /\ mixed = {}
  /\ overlapped = FALSE

Idle(t) == work[t] = NoWork
Tracing(t) == open[t] # <<>>

\* The code of t that traces, or is traced, runs.
Runs(t) == Idle(t) /\ t \notin leaving

\* The references that stand for the parameters: arg, or its elements.
Parameters(c, n) ==
  IF n = 1 THEN {[ir |-> <<"ref", ARG>>, means |-> <<"arg", c>>, home |-> c]}
  ELSE {[ir |-> <<"sel", i>>, means |-> <<"sel", c, i>>, home |-> c] :
          i \in 0 .. (n - 1)}

\* traced_computation up to the call of the function.
append_nested_context(t) ==
  /\ Runs(t)
  /\ pushed < MaxContexts
  /\ Len(open[t]) < MaxDepth
  /\ pushed' = pushed + 1
  /\ stack' = Append(stack, pushed')
  /\ open' = [open EXCEPT ![t] = Append(@, pushed')]
  /\ known' = [known EXCEPT ![t] = @ \cup Parameters(pushed', Arity[pushed'])]
  /\ overlapped' = (overlapped \/ \E u \in Threads \ {t} : Tracing(u))
  /\ UNCHANGED <<language, leaving, table, work, ended, mixed>>

Constant(f) == [ir |-> <<"fn", f>>, means |-> <<"fn", f>>, home |-> 0]

\* Values of a trace other than the one that runs.
Foreign(t, values) ==
  \E n \in 1 .. Len(values) : values[n].home \notin {0, Last(open[t])}

\* A call or embed goes to the context on top, whoever pushed it.
current_context == Last(stack)

StartWork(t, kind, values, meaning) ==
  /\ Runs(t)
  /\ Tracing(t)
  /\ Cardinality(known[t]) < MaxKnown
  /\ work' = [work EXCEPT ![t] =
       [kind |-> kind, context |-> current_context, todo |-> values,
        done |-> <<>>, name |-> ARG, means |-> meaning]]
  /\ mixed' = mixed \cup
       (IF current_context # Last(open[t]) \/ Foreign(t, values)
        THEN {current_context, Last(open[t])} ELSE {})
  /\ UNCHANGED <<stackVars, table, known, ended>>

\* The arguments are replaced from left to right, and then the function.
call(t) ==
  \E f \in Callables :
    \E args \in TupleOf(known[t] \cup {Constant(g) : g \in Callables}, 1)
                  \cup TupleOf(known[t], 2) :
      StartWork(t, "call", Append(args, Constant(f)),
                <<"call", <<"fn", f>>, [n \in 1 .. Len(args) |-> args[n].means]>>)

embed(t) ==
  /\ language = "python"
  /\ \E f \in Callables : StartWork(t, "embed", <<Constant(f)>>, <<"fn", f>>)

NextValue(t) == Head(work[t].todo)
Seen(c, ir) == HasValue(table[c], ir)

Replaced(t, n) ==
  work' = [work EXCEPT ![t].todo = Tail(@), ![t].done = Append(@, n),
                       ![t].name = ARG]

Replacing(t) == ~Idle(t) /\ work[t].todo # <<>> /\ work[t].name = ARG

\* _replace_with_reference, ReplaceWithReference: a reference is kept,
KeepReference(t) ==
  /\ Replacing(t)
  /\ NextValue(t).ir[1] = "ref"
  /\ Replaced(t, NextValue(t).ir[2])
  /\ UNCHANGED <<stackVars, table, known, ended, mixed>>

\* an IR with a name is referred to by it,
ReuseName(t) ==
  /\ Replacing(t)
  /\ NextValue(t).ir[1] # "ref"
  /\ Seen(work[t].context, NextValue(t).ir)
  /\ Replaced(t, table[work[t].context].value_to_key_[NextValue(t).ir])
  /\ UNCHANGED <<stackVars, table, known, ended, mixed>>

\* Plausible mistake: names are numbered by the replacements of the call.
NewNameOfCall(t) == Len(work[t].done)

\* and for any other a name is made of the number of names so far,
NewName(t) == Size(table[work[t].context])

MakeName(t) ==
  /\ Replacing(t)
  /\ NextValue(t).ir[1] # "ref"
  /\ ~Seen(work[t].context, NextValue(t).ir)
  /\ work' = [work EXCEPT ![t].name = NewName(t)]
  /\ UNCHANGED <<stackVars, table, known, ended, mixed>>

\* to be entered: Python overwrites, BiMap::Insert refuses a name that another
\* thread entered since, and its answer is not looked at.
Entered(m, n, ir) ==
  IF language = "python" THEN Link(m, n, ir) ELSE Insert(m, n, ir).map

Enter(t) ==
  /\ ~Idle(t)
  /\ work[t].name # ARG
  /\ table' = [table EXCEPT ![work[t].context] =
                 Entered(@, work[t].name, NextValue(t).ir)]
  /\ Replaced(t, work[t].name)
  /\ UNCHANGED <<stackVars, known, ended, mixed>>

AllReplaced(t) == ~Idle(t) /\ work[t].todo = <<>>
CallOf(done) == <<"call", Last(done), Front(done)>>

Learn(t, ir) ==
  /\ known' = [known EXCEPT ![t] = @ \cup
       {[ir |-> ir, means |-> work[t].means, home |-> work[t].context]}]
  /\ work' = [work EXCEPT ![t] = NoWork]

\* create_call. (What its operands are packed in is left out: C++ makes a
\* struct of them all, Python of more than one.) C++ returns the call,
ReturnCall(t) ==
  /\ AllReplaced(t)
  /\ work[t].kind = "call"
  /\ language = "cpp"
  /\ Learn(t, CallOf(work[t].done))
  /\ UNCHANGED <<stackVars, table, ended, mixed>>

\* Python replaces it too
ReplaceCall(t) ==
  /\ AllReplaced(t)
  /\ work[t].kind = "call"
  /\ language = "python"
  /\ work' = [work EXCEPT
       ![t].kind = "embed", ![t].done = <<>>,
       ![t].todo = <<[ir |-> CallOf(work[t].done), means |-> work[t].means,
                      home |-> work[t].context]>>]
  /\ UNCHANGED <<stackVars, table, known, ended, mixed>>

\* and returns the reference, as embed does.
ReturnReference(t) ==
  /\ AllReplaced(t)
  /\ work[t].kind = "embed"
  /\ Learn(t, <<"ref", Last(work[t].done)>>)
  /\ UNCHANGED <<stackVars, table, ended, mixed>>

\* Plausible mistake: whatever is on top is removed.
IsTopOrNot(c) == stack # <<>>

\* A context may only be removed from the top.
IsTop(c) == stack # <<>> /\ Last(stack) = c

Closed(t) ==
  /\ open' = [open EXCEPT ![t] = Front(@)]
  /\ known' = [known EXCEPT ![t] = {v \in @ : v.home # Last(open[t])}]
  /\ UNCHANGED <<language, table, pushed, work, overlapped>>

\* The function returned a value or raised; a context is removed either way. A
\* traced function that returned becomes a lambda around a block of the names
\* of its context.
PopContext(t) ==
  /\ stack' = Front(stack)
  /\ \/ \E v \in known[t] :
          ended' = ended \cup
            {[context |-> Last(open[t]), ir |-> v.ir, means |-> v.means]}
          /\ mixed' = mixed \cup
               (IF Foreign(t, <<v>>) THEN {Last(open[t])} ELSE {})
     \/ UNCHANGED <<ended, mixed>>
  /\ Closed(t)

\* RemoveNestedContext, in C++: a mutex is held over the test and the removal.
RemoveNestedContext(t) ==
  /\ language = "cpp"
  /\ Runs(t) /\ Tracing(t)
  /\ IsTop(Last(open[t]))
  /\ PopContext(t)
  /\ UNCHANGED leaving

\* remove_nested_context, in Python: the test of the top,
remove_nested_context(t) ==
  /\ language = "python"
  /\ Runs(t) /\ Tracing(t)
  /\ IsTop(Last(open[t]))
  /\ leaving' = leaving \cup {t}
  /\ UNCHANGED <<language, stack, pushed, open, overlapped>>
  /\ UNCHANGED <<table, known, work, ended, mixed>>

\* and the removal of the top, of whatever was pushed or removed since.
pop(t) ==
  /\ t \in leaving
  /\ leaving' = leaving \ {t}
  /\ PopContext(t)

\* A context of another thread is on top: RuntimeError, FailedPrecondition,
\* and this one stays below it, if it is still there.
RemoveFails(t) ==
  /\ Runs(t) /\ Tracing(t)
  /\ ~IsTop(Last(open[t]))
  /\ Closed(t)
  /\ UNCHANGED <<stack, leaving, ended, mixed>>

ThreadNext(t) ==
  \/ append_nested_context(t) \/ call(t) \/ embed(t)
  \/ KeepReference(t) \/ ReuseName(t) \/ MakeName(t) \/ Enter(t)
  \/ ReturnCall(t) \/ ReplaceCall(t) \/ ReturnReference(t)
  \/ RemoveNestedContext(t) \/ remove_nested_context(t) \/ pop(t)
  \/ RemoveFails(t)

Next == \E t \in Threads : ThreadNext(t)

Spec == Init /\ [][Next]_vars
-------------------------------------------------------------------------------
(***************************************************************************)
(* Properties.                                                             *)
(***************************************************************************)
Names(ir) ==
  CASE ir[1] = "fn" -> {}
    [] ir[1] = "sel" -> {ARG}
    [] ir[1] = "ref" -> {ir[2]}
    [] ir[1] = "call" -> {ir[2]} \cup Range(ir[3])

\* The block of the locals in table m around ir uses no name before it binds it.
IsClosed(m, ir) ==
  LET local == m.key_to_value_
  IN /\ DOMAIN local = 0 .. (Size(m) - 1)
     /\ \A n \in DOMAIN local : Names(local[n]) \subseteq ARG .. (n - 1)
     /\ Names(ir) \subseteq ARG .. (Size(m) - 1)

\* The operand named n in a block, given what its locals below n stand for.
Named(c, n, local) == IF n = ARG THEN <<"arg", c>> ELSE local[n]

Meaning(c, ir, local) ==
  CASE ir[1] = "fn" -> ir
    [] ir[1] = "sel" -> <<"sel", c, ir[2]>>
    [] ir[1] = "ref" -> Named(c, ir[2], local)
    [] ir[1] = "call" ->
         <<"call", Named(c, ir[2], local),
           [n \in 1 .. Len(ir[3]) |-> Named(c, ir[3][n], local)]>>

\* What the locals of the block of c, in table m, stand for: each may use those
\* before it.
LocalMeanings(c, m) ==
  LET meaning[n \in 0 .. (Size(m) - 1)] == Meaning(c, m.key_to_value_[n], meaning)
  IN meaning

\* A trace that no other one disturbed (no call of it went to the context of
\* another trace nor the other way round, and it used no value of another)
\* returns a closed lambda that stands for what the function does: merging the
\* calls with equal IR and naming the locals loses nothing
\* (tracing_context.py _replace_with_reference).
TraceMeansTheFunction ==
  \A e \in ended : e.context \notin mixed =>
    LET m == table[e.context]
    IN  /\ IsClosed(m, e.ir)
        /\ Meaning(e.context, e.ir, LocalMeanings(e.context, m)) = e.means

\* Context c is on the stack above context d.
Above(c, d) ==
  \E j, k \in DOMAIN stack : j < k /\ stack[j] = d /\ stack[k] = c

\* A trace finds its own context on the stack, above those it is inside of,
\* until it removes it, as long as traces do not overlap, and in C++ also when
\* they do; traces that did not overlap leave the stack as they found it, even
\* when the function raises. Where Python's traces overlap, one may pop the
\* context of another: then that trace goes on without a context of its own,
\* but never without any, so nothing it calls is run instead of traced
\* (tracing_decorator.py finally, context.py and context.cc
\* remove_nested_context, current_context).
StackHoldsOpenTraces ==
  /\ IsInjective(stack)
  /\ language = "cpp" \/ ~overlapped =>
       \A t \in Threads : \A n \in DOMAIN open[t] :
         /\ open[t][n] \in Range(stack)
         /\ \A m \in 1 .. (n - 1) : Above(open[t][n], open[t][m])
  /\ ~overlapped => \E t \in Threads : stack = open[t]
  /\ \A t \in Threads : Tracing(t) => stack # <<>>

\* The table of a C++ context is a bijection between names and IRs even when
\* two threads replace at the same time, and every operation of BiMap would
\* leave it one (bi_map.h).
TablesAreInverse ==
  language = "cpp" =>
    \A c \in Contexts : LET m == table[c] IN
      /\ IsBijection(m)
      /\ \A n \in 0 .. 1, ir \in {<<"fn", f>> : f \in Callables} :
           \A changed \in {Insert(m, n, ir), Upsert(m, n, ir), RemoveByKey(m, n),
                           RemoveByValue(m, ir)} :
             IsBijection(changed.map) /\ (changed.done \/ changed.map = m)
===============================================================================
