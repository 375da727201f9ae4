------------------------------ MODULE HttpClient ------------------------------
(***************************************************************************)
(* One HTTP request of the Android runtime, from the C++ that calls into   *)
(* Java to its answer: genc/java/.../interop/network/HttpClientImpl.java   *)
(* over Cronet's callbacks, or JavaHttpClientImpl.java, under the callers  *)
(* SimpleSynchronousHttpClientInterface.java and GoogleAiClient.java and   *)
(* their C++ side. Requests share no state, so one is enough.              *)
(*                                                                         *)
(* Cronet and the server are external: they take the body in pieces, may   *)
(* rewind it, redirect, answer with any status and with or without a       *)
(* Content-Length, which need not be the length of what is read (a body    *)
(* may be decoded on the way), deliver the body in pieces, and fail at any *)
(* moment. Cronet calls back one thing at a time, and after cancel()       *)
(* nothing but onCanceled. A body is a sequence of distinct units; what    *)
(* the readers of an answer make of it depends on its shape.               *)
(***************************************************************************)
EXTENDS Naturals, Sequences, SequencesExt, FiniteSets

CONSTANTS
  BYTE_BUFFER_LENGTH,   \* of a buffer, in units of a body
  MaxBody,              \* bound: units of a body, either way
  MaxRewinds,           \* bound: times Cronet rewinds the upload
  MaxRedirects          \* bound: redirects_to_follow of the options

ASSUME HttpAssumption ==
  /\ BYTE_BUFFER_LENGTH \in Nat \ {0}
  /\ {MaxBody, MaxRewinds, MaxRedirects} \subseteq Nat

VARIABLES
  impl,               \* the HttpClient: "cronet" or "java"
  caller,             \* "getFromUrl", "call", or "direct": it has the future
  settings,           \* of the model, by key, for "call"; <<>> for none
  post,               \* the body of the request, <<>> for none
  phase,              \* where the request is, see Phases
  position,           \* of the upload provider
  received,           \* what the server has of the body
  rewinds,            \* times Cronet rewound the upload
  redirectRemaining,
  dropped,            \* a redirect made the request a GET without a body
  served,             \* the body of the answer with status 200
  shape,              \* of that body as a text, see Shapes
  delivered,          \* how much of it Cronet has put into buffers
  bufferList,         \* the buffers: capacity, and bytes up to the position
  canceled,           \* urlRequest.cancel() was called
  finishing,          \* the task that waits for finishingExecutor, or "none"
  future,             \* pending, set, exception or cancelled
  answer              \* what the C++ caller got

upVars == <<position, received, rewinds>>
redirectVars == <<redirectRemaining, dropped>>
downVars == <<served, shape, delivered, bufferList>>
doneVars == <<finishing, future>>
givenVars == <<impl, caller, settings, post>>
vars == <<givenVars, phase, upVars, redirectVars, downVars, canceled,
          doneVars, answer>>

\* The units of a body of n.
Body(n) == [i \in 1 .. n |-> i]
Bodies == {Body(n) : n \in 0 .. MaxBody}

Running == {"upload", "sent", "reading"}
Final == {"succeeded", "failed", "canceled"}
Phases == {"new", "queued", "unread"} \cup Running \cup Final

Pending == <<"pending">>
Exception == <<"exception">>
Cancelled == <<"cancelled">>
Set(bytes) == <<"set", bytes>>

\* Settings of a model; a template may lack the parts a prompt goes into, or be
\* no JSON, no object, or of other types than it should. <<>>: the intrinsic has
\* not even the two elements that are the URI of a model and its settings.
SettingValue(k) ==
  {"absent", "empty", "given"} \cup
  (IF k = "json_request_template" THEN {"no_parts", "mistyped"} ELSE {})

Settings ==
  {<<>>} \cup
  {s \in [{"endpoint", "json_request_template", "api_key", "access_token"} ->
            {"absent", "empty", "given", "no_parts", "mistyped"}] :
     \A k \in DOMAIN s : s[k] \in SettingValue(k)}

\* What a body is to those who take it for a text, which GoogleAiCall expects to
\* be JSON: a reply with the texts of its parts; one without parts, or with a
\* part whose text is no string or that is an object without one; one with
\* something else on the way to the text than an object or an array. "wide" has
\* a character beyond 16 bits or a null, "ill_formed" what is not UTF-8 in the
\* text of a part; anything else is no object.
Shapes(body) ==
  CASE caller = "call" /\ body # <<>> ->
         {"no_object", "texts", "no_parts", "no_text", "bare_part", "mistyped",
          "wide", "ill_formed"}
    [] caller = "getFromUrl" /\ body # <<>> ->
         {"no_object", "wide", "ill_formed"}
    [] OTHER -> {"no_object"}

\* What the C++ callers return; Gone: the process ended instead.
NoAnswer == <<"none">>
InternalError == <<"internal">>
InvalidArgument == <<"invalid">>
UnknownError == <<"unknown">>
Gone == <<"gone">>
Ok(text) == <<"ok", text>>

Init ==
  /\ impl \in {"cronet", "java"}
  /\ caller \in {"getFromUrl", "call", "direct"}
  /\ settings \in (IF caller = "call" THEN Settings ELSE {<<>>})
  /\ post \in (IF caller = "getFromUrl" THEN {<<>>} ELSE Bodies)
  /\ phase = "new"
  /\ position = 0 /\ received = <<>> /\ rewinds = 0
  /\ redirectRemaining \in 0 .. (IF caller = "direct" THEN MaxRedirects ELSE 0)
  /\ dropped = FALSE
  /\ served = <<>> /\ shape = "no_object" /\ delivered = 0 /\ bufferList = <<>>
  /\ canceled = FALSE
  /\ finishing = "none" /\ future = Pending
  /\ answer = NoAnswer

Least(m, n) == IF m < n THEN m ELSE n
-------------------------------------------------------------------------------
(***************************************************************************)
(* SettableFuture: the first to settle it wins.                            *)
(***************************************************************************)
Settled(f, outcome) == IF f = Pending THEN outcome ELSE f
Settle(outcome) == future' = Settled(future, outcome)

\* A model needs its endpoint and template and one of two ways to authorize.
isValidConfigSettings ==
  LET Given(k) == settings[k] \notin {"absent", "empty"}
      Usable(k) == settings[k] # "empty"
  IN /\ Given("endpoint") /\ Given("json_request_template")
     /\ Usable("api_key") /\ Usable("access_token")
     /\ Given("api_key") \/ Given("access_token")

\* What becomes of the template: JsonSyntaxException, IllegalStateException or
\* NullPointerException, the empty text, or the body of a request.
updateJsonRequest ==
  CASE settings["json_request_template"] = "mistyped" -> "exception"
    [] settings["json_request_template"] = "no_parts" -> "empty"
    [] OTHER -> "request"

\* The start of GoogleAiClient.call, all of it before its try: too few elements
\* are logged, and then looked up.
Prepared ==
  IF settings = <<>> THEN "exception"
  ELSE IF isValidConfigSettings THEN updateJsonRequest ELSE "empty"

Sendable == caller = "call" => Prepared = "request"

\* What send throws, or what the future has in its place.
FailToSend ==
  /\ phase' = "failed"
  /\ Settle(Exception)

\* send of HttpClientImpl: the request is built and started.
send ==
  /\ impl = "cronet" /\ phase = "new" /\ Sendable
  /\ \/ phase' = "upload" /\ UNCHANGED future
     \/ FailToSend
  /\ UNCHANGED <<givenVars, upVars, redirectVars, downVars, canceled, finishing,
                 answer>>

\* send of JavaHttpClientImpl: the request is built and left to a task of the
\* executor, which the future knows nothing of.
sendInTask ==
  /\ impl = "java" /\ phase = "new" /\ Sendable
  /\ \/ phase' = "queued" /\ UNCHANGED future
     \/ FailToSend
  /\ UNCHANGED <<givenVars, upVars, redirectVars, downVars, canceled, finishing,
                 answer>>

\* The end of that task, whether somebody still waits for it or not: only a
\* status of 200 is a response, a redirect is not followed.
RunTask ==
  /\ phase = "queued"
  /\ \/ /\ \E body \in Bodies :
             /\ served' = body /\ shape' \in Shapes(body)
             /\ Settle(Set(body))
        /\ received' = post
        /\ phase' = "succeeded"
     \/ FailToSend /\ UNCHANGED <<served, shape, received>>
  /\ UNCHANGED <<givenVars, position, rewinds, redirectVars, delivered,
                 bufferList, canceled, finishing, answer>>

\* Who has the future cancels it; the listener of HttpClientImpl then cancels
\* the request, JavaHttpClientImpl has no listener.
CancelFuture ==
  /\ caller = "direct" /\ phase # "new"
  /\ future = Pending
  /\ Settle(Cancelled)
  /\ canceled' = (impl = "cronet" /\ phase \notin Final)
  /\ UNCHANGED <<givenVars, phase, upVars, redirectVars, downVars,
                 finishing, answer>>
-------------------------------------------------------------------------------
(***************************************************************************)
(* HttpClientUploadDataProvider.                                           *)
(***************************************************************************)
\* What the server is to get.
Payload == IF dropped THEN <<>> ELSE post

Alive == phase \in Running /\ ~canceled

\* Plausible mistake: every piece is taken from the start of the body.
ReadFromStart(room) ==
  LET readLength == Least(room, Len(post) - position)
  IN /\ received' = received \o SubSeq(post, 1, readLength)
     /\ position' = position + readLength

\* read into a buffer with that much room.
read(room) ==
  LET readLength == Least(room, Len(post) - position)
  IN /\ received' = received \o SubSeq(post, position + 1, position + readLength)
     /\ position' = position + readLength

Upload ==
  /\ Alive /\ phase = "upload"
  /\ Len(received) < Len(Payload)
  /\ \E room \in 1 .. BYTE_BUFFER_LENGTH : read(room)
  /\ UNCHANGED <<givenVars, phase, rewinds, redirectVars, downVars,
                 canceled, doneVars, answer>>

\* rewind: the next read starts over, with another connection.
rewind ==
  /\ position' = 0
  /\ received' = <<>>

Retry ==
  /\ Alive /\ phase = "upload"
  /\ position > 0 /\ rewinds < MaxRewinds
  /\ rewinds' = rewinds + 1
  /\ rewind
  /\ UNCHANGED <<givenVars, phase, redirectVars, downVars, canceled,
                 doneVars, answer>>

Sent ==
  /\ Alive /\ phase = "upload"
  /\ Len(received) = Len(Payload)
  /\ phase' = "sent"
  /\ UNCHANGED <<givenVars, upVars, redirectVars, downVars, canceled,
                 doneVars, answer>>
-------------------------------------------------------------------------------
(***************************************************************************)
(* HttpUrlRequestCallback.                                                 *)
(***************************************************************************)
Buffer(capacity) == [capacity |-> capacity, bytes |-> <<>>]
HasRemaining(buffer) == Len(buffer.bytes) < buffer.capacity

\* Plausible mistake: too many redirects fail the future only.
TooManyForFuture == UNCHANGED canceled

TooMany == canceled' = TRUE

\* onRedirectReceived: the request is made again elsewhere, by some statuses as
\* a GET without its body, or given up.
onRedirectReceived ==
  /\ Alive /\ phase = "sent"
  /\ IF redirectRemaining > 0
     THEN /\ redirectRemaining' = redirectRemaining - 1
          /\ dropped' \in {dropped, post # <<>>}
          /\ phase' = "upload"
          /\ rewind
          /\ UNCHANGED <<future, canceled>>
     ELSE /\ TooMany
          /\ Settle(Exception)
          /\ UNCHANGED <<redirectVars, phase, position, received>>
  /\ UNCHANGED <<givenVars, rewinds, downVars, finishing, answer>>

\* The values of the header, if there is one.
ContentLengths(body) == {<<>>, <<Len(body)>>, <<1>>}

getResponseBufferSizeEstimate(contentLengths) ==
  IF contentLengths = <<>> THEN BYTE_BUFFER_LENGTH ELSE contentLengths[1] + 1

\* onResponseStarted with status 200.
onResponseStarted ==
  /\ Alive /\ phase = "sent"
  /\ \E body \in Bodies : \E lengths \in ContentLengths(body) :
       /\ served' = body /\ shape' \in Shapes(body)
       /\ bufferList' = <<Buffer(getResponseBufferSizeEstimate(lengths))>>
  /\ phase' = "reading"
  /\ UNCHANGED <<givenVars, upVars, redirectVars, delivered, canceled,
                 doneVars, answer>>

\* Plausible mistake: what is not read is not reported either.
RefusedSilently == UNCHANGED future

Refused == Settle(Exception)

\* Another status, or a Content-Length that is no number: the body is neither
\* read nor is the request canceled.
onResponseRefused ==
  /\ Alive /\ phase = "sent"
  /\ Refused
  /\ phase' = "unread"
  /\ UNCHANGED <<givenVars, upVars, redirectVars, downVars, canceled,
                 finishing, answer>>

\* Plausible mistake: the full buffer makes room for the next.
Replaced(buffers) ==
  IF HasRemaining(Last(buffers)) THEN buffers
  ELSE Front(buffers) \o <<Buffer(BYTE_BUFFER_LENGTH)>>

\* A full buffer is followed by a new one.
Extended(buffers) ==
  IF HasRemaining(Last(buffers)) THEN buffers
  ELSE buffers \o <<Buffer(BYTE_BUFFER_LENGTH)>>

Filled(buffer, n) ==
  [buffer EXCEPT !.bytes = @ \o SubSeq(served, delivered + 1, delivered + n)]

\* onReadCompleted, after n units came into the last buffer.
onReadCompleted ==
  /\ Alive /\ phase = "reading"
  /\ LET last == Last(bufferList) IN
     \E n \in 1 .. Least(last.capacity - Len(last.bytes),
                         Len(served) - delivered) :
       /\ bufferList' = Extended(Front(bufferList) \o <<Filled(last, n)>>)
       /\ delivered' = delivered + n
  /\ UNCHANGED <<givenVars, phase, upVars, redirectVars, served, shape,
                 canceled, doneVars, answer>>

\* The last callback leaves the rest to a task.
Finish(final) ==
  /\ phase' = final
  /\ finishing' = final
  /\ UNCHANGED <<givenVars, upVars, redirectVars, downVars, canceled,
                 future, answer>>

onSucceeded ==
  /\ Alive /\ phase = "reading"
  /\ delivered = Len(served)
  /\ Finish("succeeded")

onFailed == Alive /\ Finish("failed")

onCanceled == canceled /\ phase \notin Final /\ Finish("canceled")

\* coalesce: a buffer holds what lies before its position, whether it is the
\* only one, full or not, or one of several.
coalesce(buffers) == FlattenSeq([i \in DOMAIN buffers |-> buffers[i].bytes])

RunFinishingTask ==
  /\ finishing # "none"
  /\ finishing' = "none"
  /\ Settle(CASE finishing = "succeeded" -> Set(coalesce(bufferList))
              [] finishing = "failed" -> Exception
              [] finishing = "canceled" -> Cancelled)
  /\ UNCHANGED <<givenVars, phase, upVars, redirectVars, downVars,
                 canceled, answer>>
-------------------------------------------------------------------------------
(***************************************************************************)
(* The callers: Java catches what send and the future throw and returns "". *)
(***************************************************************************)
TextOf(f) == IF f[1] = "set" THEN f[2] ELSE <<>>

\* toStringUtf8, then GetString of jni_utils.cc: what is not UTF-8 is replaced,
\* and the C++ gets modified UTF-8.
GetString(text) ==
  IF shape \in {"wide", "ill_formed"}
  THEN [i \in DOMAIN text |-> text[i] + 2 * MaxBody]
  ELSE text

\* The texts of the parts of a reply, one after the other: some of its units.
PartTexts(text) == SelectSeq(text, LAMBDA unit : unit % 2 = 0)

\* The C++ of the simple interface takes whatever it gets.
GetFromUrl(text) == answer' = Ok(GetString(text))

\* GoogleAiCall of any model but the testing one, which answers without a call:
\* no text is an error, modified UTF-8 that is not UTF-8 is no JSON, a reply
\* without parts has an empty text. nlohmann's type_error is caught by the
\* packaged_task the call is made in, whose waiter finds no result; what a const
\* object without "text" gives is undefined.
GoogleAiCall(text) ==
  \/ text = <<>> /\ answer' = InternalError
  \/ /\ text # <<>>
     /\ \/ /\ shape \in {"texts", "ill_formed"}
           /\ answer' = Ok(PartTexts(GetString(text)))
        \/ shape = "no_parts" /\ answer' = Ok(<<>>)
        \/ shape \in {"no_object", "wide", "no_text"} /\ answer' = InvalidArgument
        \/ shape = "mistyped" /\ answer' = UnknownError
        \/ /\ shape = "bare_part"
           /\ answer' \in {InvalidArgument, UnknownError, Gone}

\* CallGoogleAiClient when call throws: the text is empty, and the thread is
\* detached with the exception pending, which some virtual machines report and
\* others end the process for.
CallThrows == answer' \in {InternalError, Gone}

ReturnToCaller ==
  /\ answer = NoAnswer
  /\ future # Pending \/ ~Sendable
  /\ \/ caller = "getFromUrl" /\ GetFromUrl(TextOf(future))
     \/ caller = "call" /\ Prepared # "exception" /\ GoogleAiCall(TextOf(future))
     \/ caller = "call" /\ Prepared = "exception" /\ CallThrows
  /\ UNCHANGED <<givenVars, phase, upVars, redirectVars, downVars, canceled,
                 doneVars>>

\* What Cronet and the server are sure to bring about: one thing or another.
Cronet ==
  \/ Upload \/ Retry \/ Sent
  \/ onRedirectReceived \/ onResponseStarted \/ onResponseRefused
  \/ onReadCompleted \/ onSucceeded \/ onFailed \/ onCanceled

Next ==
  \/ send \/ sendInTask \/ RunTask \/ CancelFuture
  \/ Cronet \/ RunFinishingTask \/ ReturnToCaller

Spec == Init /\ [][Next]_vars

\* Servers answer or connections fail; executors run what they are given.
FairSpec ==
  /\ Spec
  /\ WF_vars(send \/ sendInTask)
  /\ WF_vars(RunTask)
  /\ WF_vars(Cronet)
  /\ WF_vars(RunFinishingTask)
  /\ WF_vars(ReturnToCaller)
-------------------------------------------------------------------------------
(***************************************************************************)
(* Properties.                                                             *)
(***************************************************************************)
TypeOK ==
  /\ phase \in Phases
  /\ post \in Bodies /\ served \in Bodies /\ received \in Bodies
  /\ position \in 0 .. MaxBody /\ delivered \in 0 .. MaxBody
  /\ rewinds \in 0 .. MaxRewinds /\ redirectRemaining \in 0 .. MaxRedirects
  /\ {canceled, dropped} \subseteq BOOLEAN
  /\ shape \in Shapes(served)
  /\ finishing \in Final \cup {"none"}
  /\ future \in {Pending, Exception, Cancelled} \cup {Set(b) : b \in Bodies}
  /\ \/ answer \in {NoAnswer, InternalError, InvalidArgument, UnknownError,
                    Gone}
     \/ answer[1] = "ok" /\ answer[2] \in Seq(1 .. 3 * MaxBody)

\* A response is the whole body in its order, however long the header said it
\* is and however it was cut (onResponseStarted, coalesce). A text that a caller
\* is given is all of it, as Java and JNI turn it into C++; for GoogleAiCall it
\* is what the parts of the whole reply say, never those of a part of it, and
\* there are parts, or the reply is an object without any (google_ai.cc:73-92).
ResponseIsWhole ==
  /\ future[1] = "set" => future = Set(served)
  /\ caller = "getFromUrl" =>
       answer \in {NoAnswer, Ok(<<>>), Ok(GetString(served))}
  /\ caller = "call" /\ answer[1] = "ok" =>
       \/ /\ shape \in {"texts", "ill_formed"}
          /\ answer = Ok(PartTexts(GetString(served)))
       \/ shape = "no_parts" /\ answer = Ok(<<>>)

\* The server that answers got the whole body of the request, also after
\* retries and redirects, or none of it if a redirect made it a GET
\* (HttpClientUploadDataProvider).
UploadIsWhole ==
  phase \in {"sent", "reading", "unread", "succeeded"} => received = Payload

\* Without any failure the request, or the task at its end, goes a step further:
\* there is a piece of the body left or there is not, and a buffer that Cronet
\* is given to read into has room (it throws otherwise).
GoesOn ==
  \/ finishing # "none" \/ phase = "queued"
  \/ phase = "upload" /\ Len(received) <= Len(Payload)
  \/ phase = "sent"
  \/ phase = "reading" /\ delivered <= Len(served) /\ HasRemaining(Last(bufferList))

\* A request that Cronet still works on is one that somebody waits for, or is
\* told to stop (the listener of send, onRedirectReceived); a response that is
\* refused is not read, and stays open: the exception. It is not so for the
\* task of JavaHttpClientImpl, which goes on when its future is cancelled. With
\* both clients a future that nobody has settled is that of a request that goes
\* on.
RunningIsAwaited ==
  /\ phase \in Running => future = Pending \/ canceled
  /\ phase # "new" /\ future = Pending => ~canceled /\ GoesOn

\* Every request settles its future (all callbacks, RunTask), and every caller
\* returns, but for the two ways in which the process may end: an exception that
\* call throws before its try, and a part that is an object without text.
CallersReturn ==
  /\ phase # "new" ~> future # Pending
  /\ caller # "direct" ~>
       /\ answer # NoAnswer
       /\ answer = Gone => Prepared = "exception" \/ shape = "bare_part"
===============================================================================
