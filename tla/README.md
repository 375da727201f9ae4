# A TLA+ verification of GenC

GenC authors generative-AI computations in a portable intermediate
representation (IR) and runs them on a stack of executors. This project models
its runtime: how work is scheduled and waited for, how values are owned, how a
computation is evaluated, and how an executor in another process is driven; how
computations come about, by tracing or from Java; and what lies around the
runtime on a device and in the cloud: the memory of an agent, the shared model
client, the HTTP client, and confidential computations on an attested worker.
The modules are checked with TLC on small instances; TLAPS proves the safety
properties of the modules with a state for every instance; those of `Computations`,
which rest on a recursive evaluator, are only checked.

## The system

| Part | Source (`src/genc/...`) | State | Operations |
|---|---|---|---|
| Callback tracker | `cc/runtime/concurrency_helpers.h` | two counters, the registered callbacks, those completed before registration | `Schedule`, `RunCallback`, `WaitUntilAllCompleted`, destructor |
| Tasks and threads | `cc/runtime/concurrency.h`, `threading.cc` | a task's result and its waitable | `RunAsync`, `Run`, `Get` |
| Executor base | `cc/runtime/executor.h` | next id, table of tracked values, life of the executor | `CreateValue/Call/Struct/Selection`, `Materialize`, `Dispose` |
| Value handles | `OwnedValueId` in `executor.h` | an id and a weak pointer | move, `forget`, `release` |
| Inline executor | `cc/runtime/inline_executor.cc` | one task per value | as above, on detached threads |
| Remote executor, service | `remote_executor.cc`, `executor_service.cc` | an id of the server per task; the server's table | as above, one request each; `Dispose` when the last reference goes |
| Control-flow executor | `control_flow_executor.cc`, `runner.cc` | scopes, lambdas and intrinsics with their scope | `Evaluate` and calls |
| Intrinsics | `cc/intrinsics` | none (the handlers are shared and constant) | `CheckWellFormed`, `ExecuteCall` |
| Authoring | `cc/authoring/constructor.cc`, `java/.../authoring` | the computation so far | constructors; their JNI twins |
| Tracing | `python/authoring`, `python/base`, `cc/authoring/tracing_context.cc`, `cc/base/context.cc` | a global stack of contexts, a table of names in each | push, call, embed, pop |
| Retrieval | `cc/modules/retrieval` | messages per key; two maps that are each other's inverse | put, get, remove; insert, upsert, remove |
| Agent | `cc/modules/agents/react.cc`, `python/examples/math_tool_agent.py` | the loop's state and the cached context | the rounds of the loop |
| Model on the device | `cc/interop/backends/llamacpp.cc`, executor stacks of the examples | one client, its model and key-value cache | load, decode, predict |
| HTTP client | `java/.../interop/network`, `googleai` and its C++ callers | a request: upload position, buffers, future | send and Cronet's callbacks |
| Confidential computation | `cc/interop/oak`, `cc/interop/confidential_computing`, `cc/intrinsics/confidential_computation.cc`, `cc/modules/worker` | worker: key, table; client: token, key, ids | attest, verify, six encrypted operations, restart |
| Language boundaries | `c`, `java/.../runtime` | addresses of C++ objects | create, call, materialize, dispose |

A program authors a `v0::Value` and gives it to a `Runner`, which creates it in
an executor, calls it with the argument and materializes the result. A local
stack is the control-flow executor above the inline executor: control flow is
evaluated by the caller's thread, and everything else becomes a value of the
child, computed on a thread of its own. Any executor can be served by
`ExecutorService` and used from elsewhere through `RemoteExecutor`. The table of
an executor is guarded by one mutex, but no lock is held across an operation:
operands are looked up one by one, the work happens outside the lock, and values
live as long as some thread's lambda has captured them, not as long as the table
names them.

What is hard to test here, and what should be true:

- Completion and registration of a callback race; the tracker's counters must
  agree with what has happened, a wait must not return early or hang, and a
  manager must not be destroyed under its callbacks.
- Handles are moved, forgotten and released on several threads while others
  look ids up; an owned id must stay valid, an id must never come to mean
  something else, and the executor must not vanish under a thread inside it.
- A value's result must not depend on the schedule, also when several operands
  fail; every future must become ready; a detached thread must not use a
  destroyed executor.
- Requests of the remote executor travel concurrently with the `Dispose`
  requests of the ids they name, responses get lost; the server must know what
  it is asked about and must not keep what nobody will dispose of.
- Evaluation mixes lexical scopes, laziness and errors that surface only when a
  value is materialized; a run must return what the computation means and call
  exactly the models it has to.
- Tracing goes to whichever context is on top of a stack all threads share, and
  merges calls that look alike; a trace must still stand for its function, and
  leave the stack as it was, when functions are nested or raise.
- Java and C++ exchange computations as bytes and lists of bytes; a computation
  must arrive as it was authored or not at all, and so must the result of a run,
  although the C API has no place for an error.
- An agent's context outlives its run, a bounded cache forgets, and one model
  client serves everybody: no run may see what belongs to another.
- A response comes in pieces, through callbacks, after retries and redirects, or
  not at all; it must be whole, what it says must come of it or an error, and
  whoever waits must get an answer.
- A worker may be replaced by another one between attestation and use; secrets
  must be read only by what was attested, and a client must not take the value
  of another client for its own because a new process issues ids anew.

`PROJECT.json` lists these hazards at their lines, with the properties that
cover them.

## Modules

| Module | Models | Used by |
|---|---|---|
| `CallbackTracker` | `concurrency_helpers.h` | run `callback_tracker` |
| `CallbackTrackerProofs` | proofs about it | TLAPS |
| `ExecutorBase` | `ExecutorBase` and `OwnedValueId` | run `executor_base` |
| `ExecutorBaseProofs` | proofs about it | TLAPS |
| `Executor` | what `ExecutorInterface` promises (abstract) | `InlineExecutor`, `RemoteExecutor` |
| `InlineExecutor` | `inline_executor.cc` on `RunAsync` and threads | run `inline_executor` |
| `InlineExecutorProofs` | its steps implement `Executor`; results, quiescence | TLAPS |
| `RemoteExecutor` | `remote_executor.cc`, the channel, `executor_service.cc` | runs `remote_*` |
| `RemoteExecutorProofs` | its steps implement `Executor`; disposal, requests, leaks | TLAPS |
| `IR` | `computation.proto` and the constructors | all below |
| `Intrinsics` | handler lookup, `CheckWellFormed`, inline handlers | |
| `Outcomes` | `StatusOr`, `GENC_TRY` | |
| `ControlFlowExecutor` | `control_flow_executor.cc`, the control-flow handlers, `runner.cc` | |
| `Semantics` | the reference: what a computation means | |
| `JavaConstructor` | `java/src/native/.../authoring/constructor.cc`: the JNI constructors | |
| `JavaRuntime` | `Runner.java`, `Executor.java`, their JNI functions and `c_api.cc` | |
| `Computations`, `MCComputations` | a program that authors and runs, in C++ and in Java | runs `computations`, `lexical_scoping` |
| `BiMap` | `bi_map.h` | `Tracing` |
| `Tracing`, `MCTracing` | tracing contexts and the context stack, Python and C++ | run `tracing` |
| `TracingProofs` | proofs about `BiMap`, its tables in `Tracing`, and the stack | TLAPS |
| `LocalCache` | `local_cache.h`, its custom functions | `OnDevice` |
| `ReAct` | `react.cc`: thoughts, actions, observations | `OnDevice` |
| `LlamaCpp` | `llamacpp.cc` and the handlers that share its client | `OnDevice` |
| `OnDevice`, `MCOnDevice` | agents over cache, parser and model: `math_tool_agent.py` | runs `on_device`, `on_device_stack` |
| `OnDeviceProofs` | proofs about the cache, the shared client and an agent's context | TLAPS |
| `HttpClient` | `HttpClientImpl.java`, `JavaHttpClientImpl.java`, their callers | run `http_client` |
| `HttpClientProofs` | proofs about uploads, responses and cancellation | TLAPS |
| `Confidential`, `MCConfidential` | Oak tunnel, attestation, the intrinsic, restarting worker | run `confidential` |
| `ConfidentialProofs` | proofs about secrecy, results and what is left behind | TLAPS |

### CallbackTracker

The four variables of the class keep their names. A `Schedule` call is named by
the id it gets; `pc` says how far it is (id taken, accepted or refused by
`ScheduleInternal`, returned), `cb` how far its callback is. Every section under
the mutex is one action and everything between two of them interleaves: an
accepted callback may start, finish and be counted before `RegisterCallback`.
`ScheduleInternal` is pure virtual; it is modelled by what `Schedule` needs of it
(it runs the callback once, or returns an error and never runs it). Callbacks may
call `Schedule` themselves. `due` records, when a wait begins, the calls whose
`Schedule` has returned: these are what an OK must speak for.

### ExecutorBase

Threads, handles (`slot`) and one executor. A `Create*` or `Materialize` is split
where the lock is: one `GetTracked` per operand, the virtual function on copies,
`TrackValue`. `release()` is split into `lock()` of the weak pointer, `Dispose`,
the loss of the strong pointer and the assignment of `INVALID_ID`; the executor
dies with the last strong pointer, its own clients' or one of `release()`. Clients
may use any id they were ever given, so use after release is covered.

### Executor, InlineExecutor, RemoteExecutor

`Executor` has four actions: a value is created from held values, is resolved (OK
only if its operands are), is materialized, or is released. `InlineExecutor` and
`RemoteExecutor` implement it under the mappings in their `Interface` instances,
liveness included.

In `InlineExecutor` a value is a task with the futures its lambda captured, waited
for in order; the first error is returned at once and later operands go on
running. A call whose executor is gone reads `intrinsic_handlers_` through a
dangling `this`: its result is then nondeterministic and the task is recorded in
`dangling`. `Denotation` is what a value is if its program is simply read from
first to last, and `Ancestry` what it was made from, over any number of steps.

In `RemoteExecutor` a task waits for its operands and sends one request; the
server answers with an id or an error; the channel may lose a request, deliver
it after the client was told it failed, or lose the response. The destructor of a
value sends `Dispose` when nothing refers to the task: the table, a capture, its
thread, a `Materialize`. `keeps` records with each task what its capture refers to,
over all steps, since operands keep their own operands. The constant `FunctorKept` says whether the shared state
of a `std::packaged_task` owns the functor, as in libstdc++.

### Computations

A v0::Value is a record with the proto's field names; strings are sequences of
tokens. `ControlFlowExecutor` is a recursive evaluator that follows the source
function by function, with scopes as sequences of bindings; every operator
returns an outcome (`Outcomes`): ok, fail, crash (an exception nobody catches) or
cut (a while loop reached `MaxLoop`), the calls of inline intrinsics made on the
way, and a ghost, `lost`, that records three events the properties single out (a
lambda with free names rebuilt from its proto, a lambda called without argument
whose parameter is bound outside, an argument dropped by `delegate`). An error of
the child's asynchronous work is the value `ErrorPb` until it is materialized.

`Semantics` defines what a computation means without scopes, by substituting
values for names; blocks are let-expressions, `repeat` is a serial chain of copies
and `repeated_conditional_chain` a breakable chain of rounds. It shares with the
executor only what an inline intrinsic computes and which handlers exist.
`Computations` authors a computation with one constructor per step, may wrap it
as the Python tracer does, and runs it. Of every constructor that Java has, the
C++ one (`IR`) and the JNI one (`JavaConstructor`) are applied side by side and
the program goes on with either result; `authored` remembers the former. What
can go wrong on the way through JNI (`Native` says which function a method ends in)
is parsing: a string in modified UTF-8
(`Special` characters become `"invalid"`), or messages nested beyond
`RecursionLimit`; and a list that could not be read looks like an empty one.

A computation may be run from C++ (`RunIt`, with the values `ToValue` makes one
argument of) or from Java (`RunItFromJava`, with one text). `JavaRuntime` follows
`Runner.call` through JNI and the C API: a handle is the value it stands for or
null; an error of `CreateValue` or `CreateCall` is null, which `GC_GetValue`
dereferences, and an error of `Materialize` is an empty buffer, which parses as a
value that is not set. Constructors that take a list are given two functions or
none: none of them looks at the length, while the handlers of the three chains
refuse an empty one, so `AuthoredIsWellFormed` says that an authored computation is
accepted by all its handlers except for chains of nothing, and that those are
refused; the JNI functions refuse an empty list at once. Inja templates interpret a text as JSON, REST calls and
Wolfram Alpha ask a service: which texts are JSON and what the service answers are
small external functions (`Json`, `Reached`, `Response`); that the body of any
response is the result, whatever its status, is `curl_client.cc`.

### Tracing, BiMap

One stack for all threads, Python and C++ contexts on it. A call or `embed` goes
to the context on top when it begins. Its arguments are replaced one at a time,
and a replacement is two steps, the look-up of the IR and the entry of a new
name, so that two threads can meet in one table; `BiMap` is the table of a C++
context, a dictionary that of a Python one. A trace ends by popping its context,
returned or raised, which fails if another one is on top. In C++ the test and the
removal are one section under the mutex (`RemoveNestedContext`); in Python they are
two steps (`remove_nested_context`, `pop`) with anything in between, and what `pop`
takes off the stack may be the context of another thread. Every value carries, as
a ghost, what it stands for when the function is simply run; `TraceMeansTheFunction`
compares that with what the finished lambda stands for, for traces that no other
thread's call went into.

### OnDevice: LocalCache, ReAct, LlamaCpp

An agent is the loop of `math_tool_agent.py`: evict the context, add the
question, then read the context, ask the model, parse, add the thought, use the
tool and add the observation, until the model says it is finished or the steps
are used up. Its model in the cloud is replaced by the one on the device, so that
the agent's loop and the shared client are met together. Lines of text are members of a small set (`ReAct`: a thought, a math
question, an answer, an observation, a new question), which is what the regular
expressions tell apart. `LlamaCpp` splits a call where decoding happens: the
cache's cells say whose token each is, so a foreign one shows. The constant
`handler` selects which of the three ways to reach the client is taken: under the
mutex (`CallLlamaCpp`), without (the default stack), or without and never loaded
again (Android).

### HttpClient

One request, either `HttpClient` implementation, three kinds of caller (one
with the future itself, `getFromUrl`, `GoogleAiClient.call`, the latter two with
the C++ code that called them). Cronet
and the server are the environment: pieces of any size, rewinds, redirects (by some
statuses as a GET without the body), any
status, a `Content-Length` that may be absent, wrong or no number, failure and
cancellation at any moment. Bodies are sequences of distinct units, so an order,
a loss or a repetition shows. The Java client's `send` leaves the request to a task
of its executor (`sendInTask`, `RunTask`); the future may be cancelled before and
while that task runs, and the task, which nothing tells so, goes on.

`call` prepares the request before its `try` (`Prepared`): incomplete `settings`
give no text, a template of the wrong shape or an intrinsic with too few elements
an exception, with which the thread is detached (`CallThrows`: an error or the end
of the process). What becomes of a body depends on its `shape`: `GetString` gives
C++ modified UTF-8, in which a character beyond 16 bits and a null are no UTF-8 and
what was no UTF-8 is replaced; `GoogleAiCall` parses that as JSON and returns the
texts of the parts, or one of the errors of google_ai.cc. A `type_error` of nlohmann
is caught by the `packaged_task` around the call and leaves the result unknown;
`operator[]` of a constant object without `"text"` is undefined when assertions are
off, hence any of three outcomes (`bare_part`). The testing model, which answers
without a call, is left out.

### Confidential

A client runs `ExecuteCall` of the intrinsic: it gets the evidence, verifies it
(`Accepts`: operating system, image reference, digest; the token's nonce is the
key), creates function and argument concurrently, then the call, materializes it,
and drops its handles. With its handle a value's task and `ExecutorValue` go, which
sends `Dispose` once and does not look at the outcome, or they do not: `FunctorKept`
is the constant of `RemoteExecutor`, TRUE with libstdc++, where nothing is ever
disposed of (finding `remote_libstdcxx`). The run is about a library that releases
the functor; the proof covers both. Each operation is encrypted under the key of the accepted
token; the worker decrypts with the key of its process, tells apart the six
operations and uses its own executor's table. A deployment is the sequence of
images that serve the address; a restart makes a new key and an empty table whose
ids start at zero. `use_oak = FALSE` is the worker without Oak: nothing is
encrypted, and an id of the old process may then name another client's value in
the new one. The code promises nothing in that case, so no run sets it.

## Runs

| Run | States | Shows |
|---|---|---|
| `callback_tracker` | 101 k | `BookkeepingExact`, `WaitOkMeansDone`, `DestroyedQuiescent`, `FailedOnlyWhileScheduling`, `WaitTerminates` |
| `executor_base` | 546 k | `HandlesMatchTable`, `OperandsFaithful`, `LivesWhileReferenced`, `IdsNotReused`, `DroppedIsDestroyed` |
| `inline_executor` | 385 k | `ResultsDetermined`, `MaterializedIsQuiescent`, `NobodyWaitsInVain`, `ImplementsExecutor` |
| `remote_executor` | 325 k | `RequestsNameLiveValues`, `DisposedOnce`, `ServerValuesAccounted`, `NobodyWaitsInVain`, `HandlesReleaseServerValues`, `ImplementsExecutor` |
| `computations` | 511 k | `RunsAsMeant`, `CallsAsMeant`, `AuthoredIsWellFormed`, `AuthoredAlike`, `JavaGetsTheText` |
| `tracing` | 1920 k | `TraceMeansTheFunction`, `StackHoldsOpenTraces`, `TablesAreInverse` |
| `on_device` | 476 k | `ContextIsRecentWrites`, `ContextIsOfTheRun`, `DecodesOwnTokens`, `RunsGoOn`, `RunsReturn` |
| `confidential` | 1840 k | `ReadByAttestedOnly`, `ResultIsOwn`, `NothingIsLeft` |
| `http_client` | 76 k | `ResponseIsWhole`, `UploadIsWhole`, `RunningIsAwaited`, `CallersReturn` |

Three runs find a disagreement between the code and what the repository says of
it (the quotations are in `PROJECT.json`):

- `remote_libstdcxx`: with libstdc++ a task and its waitable own each other, no
  value of the remote executor is destroyed, and the server is never told to
  dispose of one.
- `lexical_scoping`: a lambda inside a value that `parallel_map` or
  `repeated_conditional_chain` materializes loses the bindings of its free names.
- `on_device_stack`: the handler of the default stack shares the llama.cpp client
  without a lock, so a call clears the key-value cache another one is using. Run
  `on_device` shows that `CallLlamaCpp`, which has the lock, is right.

Further behaviour that the models follow and no property is about:

- `RemoteExecutor::Materialize` writes through the null pointer that the interface
  allows (`remote_executor.cc:124`).
- A lambda called without an argument sees an outer binding of its parameter's
  name (`control_flow_executor.cc:292`); `delegate` swaps its argument into an
  empty optional (`delegate.cc:58`). Both are recorded in `lost`.
- A REST configuration with a request template and no API key loses its endpoint
  (`constructor.cc:96`). A custom function that is not known is no error and
  leaves a value that is not set (`custom_function.cc:41`), which the executor
  refuses as soon as it is given back to it; this too is recorded in `lost`.
- A run in Java that fails before there is a value to materialize ends the
  process, and one that fails later returns an empty text (`c_api.cc:64`,
  `c_api.cc:101`); `JavaGetsTheText` says that nothing else can come of an error.
- The result of a REST call is the body of the response, also when the service
  refused the request (`curl_client.cc:74`).
- A response that is refused is neither read nor canceled
  (`HttpClientImpl.java:268`): `RunningIsAwaited` excepts it, and it does not speak of
  the Java client's requests, which go on when their future is cancelled
  (`JavaHttpClientImpl.java:101`).
- `GoogleAiClient.call` throws into JNI on a malformed template
  (`GoogleAiClient.java:128`, `:175`); a reply with a character beyond 16 bits that
  is not escaped is no JSON for `google_ai.cc:73`; a reply without parts, such as
  an error in JSON, is an empty text and no error.
- Two Python threads that trace at the same time may pop each other's contexts
  (`context.py:83-87`).
- `genc/cc/examples/math_tool_agent.cc` does not evict the context, so a second
  run starts with the messages of the first; the mutant of `ContextIsOfTheRun` is
  that program.

`RunsAsMeant` and `CallsAsMeant` leave out runs on which something was `lost`,
that crashed, that were cut, or that hand out a lambda with free names.

### Bounds

- `MaxCalls = 3`, one waiter and the destructor: two callbacks can race a third
  that one of them schedules, with a wait on either side of the destructor.
- Two threads, two handles, two values, three ids in `ExecutorBase`: an id can be
  released by one thread while the other looks it up, and a second id can be
  issued meanwhile. The invariants that TLAPS proves do not depend on the bound.
- Three tasks in `InlineExecutor` and `RemoteExecutor`: two operands and a value
  made from both, or a chain of three. One failing call at any point.
- `MaxSteps = 2` constructors around nine starting points and four parts: every
  intrinsic is applied to every other one, to lambdas and to data; `Trace` adds a
  lambda. Lists have two functions or none: the constructors and handlers treat the
  elements of a longer one alike. `MaxLoop = 3` exceeds what any terminating loop of that size needs.
  `RecursionLimit = 8` stands for protobuf's 100: two constructors and a trace
  nest between 4 and 12 messages, so both sides of the limit are reached. `Texts`
  has a template with a field that the JSON text has and one with a field it lacks;
  `Urls` a service that can be reached and one that cannot.
- Two threads, two contexts, one callable, a depth of two in `Tracing`: one trace
  inside another, or two threads' traces in either order of push and pop, and a
  call from each thread in the same table. `MaxKnown = 3` lets a call use its
  parameters and earlier results, which is where merging and numbering matter.
- Two agents, two runs and two rounds in `OnDevice`, a cache of two messages per
  key: the second round drops a message, and the second run meets what the first
  one left or overlaps it. `n_ctx = 3` and answers up to two tokens: a second
  round's prompt leaves room for one token, and any decoding may fail.
- Bodies of up to five units and buffers of two in `HttpClient`: empty, part of a
  buffer, a full one, several and a rest. Every shape of a reply and every
  combination of settings.
- Two clients, one restart and one lost call in `Confidential`: the other client's
  values take the ids of the first one's in the new process, and a call fails at
  any point of `ExecuteCall`, or one of the `Dispose` requests after it does.

Runs that are over may stop: a computation is run once, contexts, agents' runs,
requests and clients are finitely many. Deadlock is therefore not checked in
`computations`, `tracing`, `on_device`, `confidential` and `http_client`; in the
two with liveness properties, `RunsReturn` and `CallersReturn` say that whoever
is waiting gets on. Everywhere else it is checked, and an explicit final action
says when the system may rest.

### Fairness

Threads that are inside a method or a callback go on (weak fairness of the steps
of one thread): the operating system schedules them. Nobody is forced to call
anything. In `RemoteExecutor` a request that the channel has not failed is
eventually answered, since gRPC either delivers or fails a call; a request the
client gave up on need never arrive. `ScheduleInternal` is fair because it must
return. No fairness is assumed of callers, of the channel's failures or of late
requests.

In `OnDevice` every run has a thread of its own, which goes on; runs are finitely
many, so weak fairness also of the step that takes the mutex is what an unfair
mutex grants. In `HttpClient` Cronet brings about one of the things it may do, a
callback's finishing task and the task of the Java client run and end, since
executors run what they are given and connections answer or fail, and the caller
takes the answer that is there. Nobody is
forced to cancel.

## Proofs

`CallbackTrackerProofs` proves, for every `MaxCalls` and every set of waiters,
`TypeCorrect`, `WaitSound`, `DestructorSound`, `BookkeepingSound` and
`FailureSound`, the invariants and the action property of run `callback_tracker`.
None of them is inductive. The inductive invariant is

    IInv == TypeOK /\ CountInv /\ TrackInv /\ NestInv /\ WaitInv
            /\ WaitOkMeansDone /\ DestroyedQuiescent

`CountInv` says which ids have been issued and that the number of completed
callbacks is the number of calls that are counted or ignored (a cardinality, so
the counter can be compared with the set of calls that are not finished);
`TrackInv` places every unfinished callback in the registered set, or before its
registration, and every early completion between the two; `NestInv` says that a
call in progress was made by a callback that is still running or by a client that
keeps the destructor away; `WaitInv` ties what a wait is due to what is still
registered. From a zero difference of the counters follows that the set of
unfinished calls is empty, which is what `WaitUntilAllCompleted` relies on.
`BookkeepingExact` says more than that the sets agree with the callbacks: the
pending count is the number of calls that are outstanding, and a thread only ever
waits for the callback of a call that has returned (`WonInv`). So a wait is never
for a callback that was refused or forgotten; that the callback ends, and with it
the wait, is left to `WaitTerminates`.

`ExecutorBaseProofs` proves, for any numbers of threads, handles, values, ids and
operands, `TypeCorrect`, `HandlesSound` (`HandlesMatchTable`, from `OwnedSound`
and `OneOwner`), `FaithfulOperands`, `AliveWhileReferenced`
(`LivesWhileReferenced`) and `NoReuse`: the safety properties of run
`executor_base`. The inductive invariant is

    IInv == TypeOK /\ ThreadInv /\ Disjoint /\ IssuedInv /\ OwnerInv
            /\ ValidInv /\ LifeInv /\ OperandsFaithful

`ThreadInv` says what a thread has in its hands at each point of a method (that
the handle an operation will assign to stays empty, and that a handle whose
`Dispose` is done no longer names an entry of the table); `Disjoint` that no two
threads work on one handle; `IssuedInv` that only issued ids occur anywhere,
which is why a new id disturbs nobody; `OwnerInv` and `ValidInv` are the two
directions of the correspondence between handles and table, and `LifeInv` ties
the destruction to the last `shared_ptr`. `OwnedIsTracked` is not inductive
because a handle being released is exempt from it: `ValidInv` names the thread
that releases it. `AliveWhileReferenced` also needs the other direction of
`LifeInv`: an executor that nobody refers to has been destroyed (`HeldInv`), since
whoever gives up the last `shared_ptr` destroys it and whoever has another one
keeps it. There is one lemma per action with one step per conjunct. The only
assumptions are that there is a thread (one made the executor), that `NoSlot` and
`NoValue` are not a slot and a value, and that the bounds are naturals.

`InlineExecutorProofs` proves `StepsImplement`: the initial states of
`InlineExecutor` are initial states of `Executor` and each of its steps is a step
of `Executor` or none, under the mapping of `Interface`. That is the safety part
of `ImplementsExecutor`. The invariant says that a thread has waited for a prefix
of its futures and found no error there (`WaitedInv`) and that the client
materializes only what it has a handle of (`ClientInv`). From the first follows
that a value succeeds only after its operands, although an early error lets
later operands go on running. With `ResultInv`, which accounts for every result
(a value was computed from results that are there, or it has the error of the
first operand that failed, whose predecessors succeeded), follow `Deterministic`
(`ResultsDetermined`) and `Quiescent` (`MaterializedIsQuiescent`). Both speak of
everything a value was computed from: `Denotation` is a recursive function whose
equation is proved from the order of ids (`DenotationIsDefined`), `Ancestry` the
least set that is closed under operands (`AncestryIsLeast`).

`SomebodyCanGo` (`NobodyWaitsInVain`) is the part of "every future becomes ready"
that is about states: whoever waits for a value that is not done, waits, at the end
of a chain of operands, for a thread that can make a step. It needs that the operands
of a value were created and stay so (`MadeInv`, on top of the invariants above), and
that operands are earlier than what is made of them: the least value of the ancestry
that is not done has all its operands, so its own thread can go on.

`RemoteExecutorProofs` proves the same of `RemoteExecutor`, and `OnceDisposed`
(`DisposedOnce`), for any number of lost calls and for both values of
`FunctorKept`. Its invariant is

    IInv == TypeInv /\ WaitedInv /\ MaterializeInv /\ IdInv /\ ReplyInv

`IdInv` follows an id through its life: below the server's counter once issued,
naming its value while the response travels and while the client has it, until
its `Dispose` request is sent. Two tasks never have the same id, because the
server's table can name only one of them, and that is why an id in a response
cannot be disposed of by the destructor of another value. The lemma
`DestroyKeeps` states this once for all steps that end with destructors.

`RemoteTyping` (`TypeOK`), `RequestsFindTheirValues` (`RequestsNameLiveValues`)
and `ServiceLeaksNothing` (`ServerValuesAccounted`) come from

    LInv == IInv /\ TypeOK /\ ServedOnce /\ AliveInv /\ ServerValuesAccounted

`ServedOnce` counts: the server's counter is the number of tasks it answered with
an id, which is why it stays within `Ids`. `AliveInv` says that a task keeps itself
and its operands, and that the id of a task that something still refers to has not
been disposed of. It is preserved because the tasks something refers to grow only
when a value is created, and then by that value (`AliveShrinks`, `AliveGrows`).

`SomebodyCanGo` (`NobodyWaitsInVain`) is the same statement as for the inline
executor, across the channel: the least task that a task keeps and that is not
resolved has a request that is on its way or answered, or an operand whose answer it
can take. `ChainInv` says that what a task keeps is kept with everything it keeps in
turn, and that a thread in a call has a request the channel has not dropped silently:
a failing call returns too (the mutant leaves the thread in the call). It is proved
with the destructors at the end of every step, and for either library.

`TracingProofs` proves, for any keys and values, that `Insert`, `Upsert`,
`RemoveByKey` and `RemoveByValue` of `BiMap` keep the two maps inverse, one lemma
per operation, and from these `TablesSound` (`TablesAreInverse`): the tables of
C++ traces are bijections whatever the threads do. The invariant (`TablesInv`) is
the property without its claim about further operations, which the lemmas add.
`StackSound` (`StackHoldsOpenTraces`) rests on the numbering of contexts: they are
numbered as they are pushed, so the stack and each thread's open traces ascend,
and no two threads have one in common (`StackInv`); one ascending sequence within
another is in the same order. That every open trace is on the stack holds in C++,
and in Python until two threads trace at once: a thread between the test of
`remove_nested_context` and its pop makes no call (`LeaveInv`) and, as long as no
other traces, the stack is its own open traces, so what it found on top is still there
(the last part of `StackInv`). After that a thread may pop what is not its own,
and what remains true is a count: the stack is as long as all open traces together or
longer, since a pop ends the trace of the thread that pops, whatever it removes. So a
thread that traces never finds the stack empty.
`TraceSound` (`TraceMeansTheFunction`) is about the contexts that a single trace
used (those not in `mixed`). The names of such a context are 0, 1, ... without a
gap and each IR uses only those before its own (`Forward`), so the recursive
function `LocalMeanings` exists (`LocalsAreDefined`) and a name more leaves what the
others stand for as it is (`Growth`). `TraceInv` says that every value a trace holds
and every result it returned stands for its meaning in the table as it is now, and
that the operands a call under way has named, followed by those it has not named
yet, stand for what the call means (`GoesWell`). A name that was made is still new
when it is entered, because no other thread has this context under way (`StackInv`:
no two threads have an open trace in common), which is also why BiMap's refusals,
which nobody looks at, do no harm here. The invariant was first checked with TLC on
the instance of run `tracing`.

`OnDeviceProofs` proves `RecentWrites` (`ContextIsRecentWrites`), which is
inductive together with the type of the cache, and `OwnTokens`
(`DecodesOwnTokens`) under the assumption `handler = "shared"`: without it the
property is false, as run `on_device_stack` shows. The invariant says that
whoever is past the lock holds it and that a call has tokens only once it has
decoded its prompt (`CallInv`); so while one call decodes, no other has a token
in the key-value cache. `OwnContext` (`ContextIsOfTheRun`) holds for any handler,
limits and earlier runs. Its invariant says of an agent that nobody overlapped
since it started (`AloneInv`) that the messages written under its key since it
evicted the context are its own, of the kinds that belong at their positions, and
that their number tells where in its loop it is (`RunInv`). A thought holds no
observation because the parser cuts it off before the first one
(`ParseKeepsNoObservation`). `SomebodyRuns` (`RunsGoOn`) holds for any handler too:
the mutex is with a call that is past the lock, such a call belongs to a run that is
at its model, and every other run is between two steps of its loop and within its
limit (`ProgressInv`). No error path of the call keeps the mutex, so a run that waits
for it waits for one that does not wait.

`HttpClientProofs` proves `WholeUpload` (`UploadIsWhole`), `Awaited`
(`RunningIsAwaited`) and `WholeResponse` (`ResponseIsWhole`). `UploadInv` says
that what the server received is the part of the body before the upload's
position, through every rewind and redirect, and that nothing is read of one that a redirect
dropped; `AwaitedInv` that a future that is
settled belongs to a request that is over, was canceled, or was refused, or to the
task of the Java client, and that
one that is not settled belongs to a request that is not canceled, whose task
settles it when it is over; `ResponseInv` that the buffers, put together, are what
was delivered so far, and follows the body from there to the future. `AnswerInv`
follows it to the caller: there is no answer before the future is settled, no
response comes after that to who waits for it, and of a text that is not empty what
is returned is made from all of it. `UploadInv`, `AwaitedInv` and `ResponseInv`,
with `RoomInv` (the buffer that Cronet reads into has room, which the code restores after
every read), show that a request whose future is not
settled can go on: the second half of `RunningIsAwaited`. What putting together
computes is a fold of the community modules, whose value on one more buffer is
`FlattenAppend`.

`ConfidentialProofs` proves `Attested` (`ReadByAttestedOnly`), and `OwnResult`
(`ResultIsOwn`) under the assumption `use_oak = TRUE`. The invariant ties a
client's key to a deployment its demands accept (`KeyInv`), says that in the
process whose key a client has, the client's ids name its own values (`IdInv`),
and that what it materialized is its own even after that process is gone
(`MaterializedInv`). Without Oak `IdInv` fails: the ids of the old process may
name values of the new one. `NothingLeft` (`NothingIsLeft`), under the same
assumption, adds `LeftInv`: a value in the worker's table belongs to a client of
this process who knows its id and has not sent its `Dispose`, or whose response
with the id, or the `Dispose`, was lost. Under `FunctorKept` no `Dispose` is ever
sent, and `NothingIsLeft` claims nothing of values whose ids the client knows. The actions that concern one value can only disturb the
values of one client in one role, because no two of them are equal
(`ValuesDiffer`). A client's demands, the images and the sequence of
deployments are arbitrary.

Where a proof needs induction over numbers, it takes the least element of a set of
counterexamples (`LeastNumber`, from the well-foundedness of the natural numbers);
the induction rules of the library have an operator as a parameter, which no
prover here can instantiate.

The assumptions on constants are the named ones of the modules: bounds are
naturals (a cache keeps at least one message, a buffer at least one unit), the
markers for "none" are not members of the sets they are added to, and switches
and records have the values and fields the modules declare.

Only checked with TLC:

- liveness (`WaitTerminates`, `DroppedIsDestroyed`, `HandlesReleaseServerValues`,
  `RunsReturn`, `CallersReturn`, and the fairness of `Executor` in the two
  refinements), which is outside what this prover does. What it rests on is proved:
  in every reachable state somebody can go on (`NobodyWaitsInVain` twice,
  `RunsGoOn`, `RunningIsAwaited`), and what is counted or referred to is exactly
  what is still to come (`BookkeepingExact`, `LivesWhileReferenced`). What remains
  is that the steps come to an end, which TLC checks under fairness;
- the five properties of `Computations`: a recursive evaluator is compared with a
  recursive reference, and constructors with a recursive test of what they built,
  so a proof would be by induction over computations, and the modules declare
  recursive operators.

`TypeOK` of `CallbackTracker`, `ExecutorBase`, `RemoteExecutor`, `InlineExecutor`,
`HttpClient` and `Confidential` states the variables' types and is in no run; those
of the first three are proved.

## Not modelled, and the plan

Next:

1. The life of handles across the C API, JNI and Java (`OwnedValueId.java`), where
   a Java object holds the address of a C++ object: interesting only together with
   finalization and threads of the Java runtime.
2. Type inference and checking, pure functions that no executor calls.

Left out for good: the cryptography and the signatures of tokens, gRPC and libcurl,
the services and libraries behind the model backends (Open AI has the shape of
Google AI; MediaPipe's client keeps one model, see the hazards), text that is only formatted or taken apart (the Gemini
parser, the grammar of Inja templates, labels of values), process set-up, and examples other than the agent.
The clients over libcurl make one blocking call at a time; those of
`curl_based_http_client.cc` share one handle, whose options stay set from one call
to the next.
