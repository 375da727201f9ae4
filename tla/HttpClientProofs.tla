--------------------------- MODULE HttpClientProofs ---------------------------
(***************************************************************************)
(* Proofs about module HttpClient: for bodies and buffers of any length    *)
(* and any number of retries and redirects, the server that answers got    *)
(* the whole body, the answer is the whole body too, whatever its shape    *)
(* the callers get what it says, and no request of Cronet goes on that     *)
(* nobody waits for.                                                       *)
(***************************************************************************)
EXTENDS HttpClient, SequenceTheorems, WellFoundedInduction, TLAPS

\* What the server has is the part of the body that was read, and all of it
\* once Cronet is past the upload; a body that is dropped is not read again.
UploadInv ==
  /\ post \in Seq(Nat)
  /\ position \in 0 .. Len(post)
  /\ phase \in Phases
  /\ phase = "new" => position = 0 /\ received = <<>>
  /\ phase \in {"new", "queued"} => ~dropped
  /\ phase \in Running => /\ received = SubSeq(post, 1, position)
                          /\ dropped => position = 0
  /\ UploadIsWhole

\* Who may settle the future while Cronet works on the request also cancels it;
\* the task that settles it otherwise comes after the last callback, and comes
\* unless the future was settled before. While the task of JavaHttpClientImpl is
\* due, only who has the future may settle it.
AwaitedInv ==
  /\ phase \in Phases /\ finishing \in Final \cup {"none"}
  /\ phase \in Running => impl = "cronet"
  /\ phase = "queued" => /\ impl = "java"
                         /\ future = Pending \/ caller = "direct"
  /\ phase = "new" => future = Pending /\ ~canceled
  /\ finishing # "none" => phase \in Final
  /\ phase \in Running => future = Pending \/ canceled
  /\ future = Pending => /\ ~canceled /\ phase # "unread"
                         /\ phase \in Final => finishing # "none"

-------------------------------------------------------------------------------
\* A piece of the body goes after the ones before it.
LEMMA ReadAppends ==
  ASSUME NEW S, NEW s \in Seq(S), NEW p \in 0 .. Len(s), NEW n \in Nat,
         p + n <= Len(s)
  PROVE  SubSeq(s, 1, p) \o SubSeq(s, p + 1, p + n) = SubSeq(s, 1, p + n)
<1>1. /\ 1 \in 1 .. Len(s) + 1 /\ p \in 1 - 1 .. Len(s)
      /\ p + n \in p .. Len(s)
  OBVIOUS
<1> QED BY <1>1, ConcatAdjacentSubSeq

\* Initially nothing is sent or settled.
LEMMA InitInv == Init => UploadInv /\ AwaitedInv
<1> SUFFICES ASSUME Init PROVE UploadInv /\ AwaitedInv
  OBVIOUS
<1>1. post \in Seq(Nat)
  <2>1. \A n \in 0 .. MaxBody : Body(n) \in Seq(Nat)
    BY HttpAssumption DEF HttpAssumption, Body
  <2> QED BY <2>1, EmptySeq DEF Init, Bodies
<1>2. UploadInv
  BY <1>1 DEF Init, UploadInv, Phases, Running, UploadIsWhole, Payload
<1>3. AwaitedInv
  BY DEF Init, AwaitedInv, Phases, Running, Final
<1> QED BY <1>2, <1>3

\* read hands over the next piece.
LEMMA UploadStep == ASSUME UploadInv, Upload PROVE UploadInv'
<1>1. PICK room \in 1 .. BYTE_BUFFER_LENGTH : read(room)
  BY DEF Upload
<1> DEFINE n == Least(room, Len(post) - position)
<1>2. n \in Nat /\ position + n <= Len(post)
  BY DEF UploadInv, Least
<1>3. /\ received' = received \o SubSeq(post, position + 1, position + n)
      /\ position' = position + n
  BY <1>1 DEF read
<1> HIDE DEF n
<1>4. /\ received = SubSeq(post, 1, position) /\ phase = "upload"
      /\ UNCHANGED <<post, phase, dropped>>
  BY DEF Upload, UploadInv, Running, givenVars, redirectVars
<1>5. received' = SubSeq(post, 1, position') /\ position' \in 0 .. Len(post)
  <2>1. post \in Seq(Nat) /\ position \in 0 .. Len(post)
    BY DEF UploadInv
  <2>2. SubSeq(post, 1, position) \o SubSeq(post, position + 1, position + n)
          = SubSeq(post, 1, position + n)
    BY <1>2, <2>1, ReadAppends
  <2>3. position + n \in 0 .. Len(post)
    BY <1>2, <2>1
  <2> QED BY <1>3, <1>4, <2>2, <2>3
<1>6. ~dropped
  <2>1. Len(received) \in Nat /\ Len(received) < Len(Payload)
    <3>1. post \in Seq(Nat) /\ position \in 0 .. Len(post)
      BY DEF UploadInv
    <3>2. \A i \in 1 .. position : post[i] \in Nat
      BY <3>1, ElementOfSeq
    <3> QED BY <1>4, <3>1, <3>2, SubSeqProperties DEF Upload
  <2> QED BY <2>1 DEF Payload
<1> QED BY <1>4, <1>5, <1>6 DEF UploadInv, UploadIsWhole

\* What has been read is all of it when it is as long.
LEMMA SentStep == ASSUME UploadInv, Sent PROVE UploadInv'
<1>1. received = SubSeq(post, 1, position) /\ Len(received) = Len(Payload)
  BY DEF Sent, UploadInv, Running
<1>2. Len(SubSeq(post, 1, position)) = position
  <2>1. \A i \in 1 .. position : post[i] \in Nat
    BY ElementOfSeq DEF UploadInv
  <2> QED BY <2>1, SubSeqProperties DEF UploadInv
<1>3. received = Payload
  <2>1. CASE dropped
    <3>1. position = 0
      BY <2>1 DEF Sent, UploadInv, Running
    <3> QED BY <1>1, <2>1, <3>1, SubSeqEmpty DEF Payload
  <2>2. CASE ~dropped
    BY <1>1, <1>2, <2>2, SubSeqFull DEF UploadInv, Payload
  <2> QED BY <2>1, <2>2
<1>4. /\ phase = "upload" /\ phase' = "sent"
      /\ UNCHANGED <<post, position, received, dropped>>
  BY DEF Sent, givenVars, upVars, redirectVars
<1> QED BY <1>3, <1>4 DEF UploadInv, UploadIsWhole, Payload, Phases, Running

\* Retries and redirects start over.
LEMMA RewindStep ==
  ASSUME UploadInv, Retry \/ onRedirectReceived
  PROVE  UploadInv'
<1>1. SubSeq(post, 1, 0) = <<>>
  BY SubSeqEmpty
<1>2. CASE Retry
  BY <1>1, <1>2 DEF Retry, rewind, UploadInv, UploadIsWhole, givenVars,
                    redirectVars
<1>3. CASE onRedirectReceived
  <2>1. CASE redirectRemaining > 0
    <3>1. phase' = "upload" /\ position' = 0 /\ received' = <<>> /\ post' = post
      BY <1>3, <2>1 DEF onRedirectReceived, rewind, givenVars
    <3> QED BY <1>1, <3>1 DEF UploadInv, UploadIsWhole, Phases, Running
  <2>2. CASE ~(redirectRemaining > 0)
    BY <1>3, <2>2 DEF onRedirectReceived, UploadInv, UploadIsWhole, givenVars,
                      redirectVars, Payload
  <2> QED BY <2>1, <2>2
<1> QED BY <1>2, <1>3

\* No other step uploads anything, but the task of JavaHttpClientImpl, which
\* sends all at once.
LEMMA NextUploadInv == ASSUME UploadInv, [Next]_vars PROVE UploadInv'
<1> USE DEF givenVars, upVars, redirectVars
<1>1. CASE send \/ sendInTask
  <2>1. /\ phase' \in {"upload", "queued", "failed"} /\ phase = "new"
        /\ UNCHANGED <<post, position, received, dropped>>
    BY <1>1 DEF send, sendInTask, FailToSend
  <2>2. SubSeq(post, 1, 0) = <<>>
    BY SubSeqEmpty
  <2> QED BY <2>1, <2>2 DEF UploadInv, UploadIsWhole, Phases, Running, Final
<1>2. CASE RunTask
  <2>1. ~dropped /\ phase' \in Final /\ UNCHANGED <<post, position, dropped>>
    BY <1>2 DEF RunTask, FailToSend, UploadInv, Final
  <2>2. phase' = "succeeded" => received' = post
    BY <1>2 DEF RunTask, FailToSend
  <2> QED BY <2>1, <2>2 DEF UploadInv, UploadIsWhole, Payload, Phases, Running,
                            Final
<1>3. CASE Upload \/ Sent \/ Retry \/ onRedirectReceived
  BY <1>3, UploadStep, SentStep, RewindStep
<1>4. CASE onResponseStarted \/ onResponseRefused \/ onReadCompleted
  BY <1>4 DEF onResponseStarted, onResponseRefused, onReadCompleted, UploadInv,
              UploadIsWhole, Payload, Phases, Running
<1>5. CASE onSucceeded \/ onFailed \/ onCanceled
  BY <1>5 DEF onSucceeded, onFailed, onCanceled, Finish, Alive, UploadInv,
              UploadIsWhole, Payload, Phases, Running, Final
<1>6. CASE CancelFuture \/ RunFinishingTask \/ ReturnToCaller \/ UNCHANGED vars
  BY <1>6 DEF CancelFuture, RunFinishingTask, ReturnToCaller, vars, UploadInv,
              UploadIsWhole, Payload
<1> QED BY <1>1, <1>2, <1>3, <1>4, <1>5, <1>6 DEF Next, Cronet

\* Whatever settles a future leaves it settled.
LEMMA SettledForGood ==
  ASSUME NEW f, NEW outcome, outcome # Pending
  PROVE  Settled(f, outcome) # Pending
  BY DEF Settled

\* Each settling of the future ends the request or cancels it.
LEMMA NextAwaitedInv == ASSUME AwaitedInv, [Next]_vars PROVE AwaitedInv'
<1> USE DEF AwaitedInv, Phases, Running, Final, givenVars, doneVars
<1>0. /\ Exception # Pending /\ Cancelled # Pending
      /\ \A bytes : Set(bytes) # Pending
  BY DEF Pending, Exception, Cancelled, Set
<1>1. CASE send \/ sendInTask
  <2>1. /\ phase = "new" /\ finishing = "none" /\ finishing' = "none"
        /\ future = Pending /\ ~canceled /\ canceled' = canceled
        /\ UNCHANGED <<impl, caller>>
    BY <1>1 DEF send, sendInTask
  <2>2. CASE FailToSend
    <3>1. future' # Pending /\ phase' = "failed"
      BY <1>0, <2>2, SettledForGood DEF FailToSend, Settle
    <3> QED BY <2>1, <3>1
  <2>3. CASE ~FailToSend
    BY <1>1, <2>1, <2>3 DEF send, sendInTask
  <2> QED BY <2>2, <2>3
<1>2. CASE RunTask
  <2>1. future' # Pending /\ phase' \in Final
    BY <1>0, <1>2, SettledForGood DEF RunTask, FailToSend, Settle
  <2>2. finishing' = finishing
    BY <1>2 DEF RunTask
  <2> QED BY <2>1, <2>2
<1>3. CASE CancelFuture
  BY <1>0, <1>3, SettledForGood DEF CancelFuture, Settle
<1>4. CASE Upload \/ Sent \/ Retry \/ onResponseStarted \/ onReadCompleted
  BY <1>4 DEF Upload, Sent, Retry, onResponseStarted, onReadCompleted, Alive
<1>5. CASE onRedirectReceived
  BY <1>0, <1>5, SettledForGood DEF onRedirectReceived, TooMany, Alive, Settle
<1>6. CASE onResponseRefused
  BY <1>0, <1>6, SettledForGood DEF onResponseRefused, Refused, Alive, Settle
<1>7. CASE onSucceeded \/ onFailed \/ onCanceled
  BY <1>7 DEF onSucceeded, onFailed, onCanceled, Finish, Alive
<1>8. CASE RunFinishingTask
  <2>1. future' # Pending
    <3>1. CASE finishing = "succeeded"
      BY <1>0, <1>8, <3>1, SettledForGood DEF RunFinishingTask, Settle
    <3>2. CASE finishing = "failed"
      BY <1>0, <1>8, <3>2, SettledForGood DEF RunFinishingTask, Settle
    <3>3. CASE finishing = "canceled"
      BY <1>0, <1>8, <3>3, SettledForGood DEF RunFinishingTask, Settle
    <3> QED BY <1>8, <3>1, <3>2, <3>3 DEF RunFinishingTask
  <2>2. phase \in Final /\ UNCHANGED <<phase, impl, canceled>> /\ finishing' = "none"
    BY <1>8 DEF RunFinishingTask
  <2> QED BY <2>1, <2>2
<1>9. CASE ReturnToCaller \/ UNCHANGED vars
  BY <1>9 DEF ReturnToCaller, vars
<1> QED BY <1>1, <1>2, <1>3, <1>4, <1>5, <1>6, <1>7, <1>8, <1>9 DEF Next, Cronet
-------------------------------------------------------------------------------
(***************************************************************************)
(* What FlattenSeq makes of the buffers.                                   *)
(***************************************************************************)
\* A set of numbers that is not empty has a least one.
LEMMA LeastNumber ==
  ASSUME NEW T \in SUBSET Nat, T # {}
  PROVE  \E x \in T : \A y \in T : x <= y
<1>1. \E R : /\ \E x \in T : \A y \in T : ~ (<<y, x>> \in R)
             /\ \A x, y \in Nat : y < x => <<y, x>> \in R
  <2>1. \E x \in T : \A y \in T : ~ (<<y, x>> \in OpToRel(<, Nat))
    BY NatLessThanWellFounded, WFMin
  <2>2. \A x, y \in Nat : y < x => <<y, x>> \in OpToRel(<, Nat)
    BY DEF OpToRel
  <2> QED BY <2>1, <2>2, Zenon
<1>2. PICK x \in T : \A y \in T : ~(y < x)
  BY <1>1
<1> QED BY <1>2

\* Induction, for a set in place of a predicate.
LEMMA SetInduction ==
  ASSUME NEW S \in SUBSET Nat, 0 \in S, \A n \in S : n + 1 \in S
  PROVE  S = Nat
<1> SUFFICES ASSUME Nat \ S # {} PROVE FALSE
  OBVIOUS
<1>1. PICK x \in Nat \ S : \A y \in Nat \ S : x <= y
  BY LeastNumber
<1>2. x # 0 /\ x - 1 \in Nat /\ x - 1 \notin Nat \ S
  BY <1>1
<1>3. (x - 1) + 1 \in S
  BY <1>2
<1> QED BY <1>2, <1>3

\* f joins the sequences in s, the first n of them.
Joins(f, s, n) ==
  \A k \in 1 .. Len(s) :
    k <= n => f[k] = IF k = 1 THEN s[k] ELSE f[k - 1] \o s[k]

\* There is such a function,
LEMMA JoinExists ==
  ASSUME NEW S, NEW s \in Seq(Seq(S))
  PROVE  \E f : Joins(f, s, Len(s)) /\ \A k \in 1 .. Len(s) : f[k] \in Seq(S)
<1> DEFINE Good(f, n) == /\ Joins(f, s, n)
                         /\ \A k \in 1 .. Len(s) : k <= n => f[k] \in Seq(S)
           T == {n \in Nat : \E f : Good(f, n)}
<1>0. \A k \in 1 .. Len(s) : s[k] \in Seq(S)
  BY ElementOfSeq
<1>1. 0 \in T
  BY DEF Joins
<1>2. ASSUME NEW n \in T PROVE n + 1 \in T
  <2>1. PICK f : Good(f, n)
    OBVIOUS
  <2> DEFINE next == IF n + 1 = 1 THEN s[n + 1] ELSE f[n] \o s[n + 1]
             g == [k \in Nat |-> IF k <= n THEN f[k] ELSE next]
  <2>2. n \in Nat
    OBVIOUS
  <2>3. ASSUME NEW k \in 1 .. Len(s), k <= n + 1
        PROVE  /\ g[k] = IF k = 1 THEN s[k] ELSE g[k - 1] \o s[k]
               /\ g[k] \in Seq(S)
    <3>1. CASE k <= n
      <4>1. g[k] = f[k] /\ (k # 1 => g[k - 1] = f[k - 1])
        BY <2>2, <3>1
      <4> QED BY <2>1, <3>1, <4>1 DEF Joins
    <3>2. CASE k = n + 1
      <4>1. g[k] = next /\ (k # 1 => g[k - 1] = f[n] /\ n \in 1 .. Len(s))
        BY <2>2, <3>2
      <4>2. k # 1 => f[n] \in Seq(S)
        BY <2>1, <2>2, <4>1
      <4>3. s[k] \in Seq(S)
        BY <1>0
      <4> HIDE DEF g
      <4>4. CASE k = 1
        BY <3>2, <4>1, <4>3, <4>4
      <4>5. CASE k # 1
        <5>1. g[k] = f[n] \o s[k] /\ g[k - 1] = f[n]
          BY <3>2, <4>1, <4>5
        <5> QED BY <4>2, <4>3, <4>5, <5>1, ConcatProperties, ZenonT(30)
      <4> QED BY <4>4, <4>5
    <3> QED BY <2>2, <2>3, <3>1, <3>2
  <2> HIDE DEF g
  <2>4. Good(g, n + 1)
    BY <2>3 DEF Joins
  <2> QED BY <2>2, <2>4
<1> HIDE DEF T
<1>3. T = Nat
  BY <1>1, <1>2, SetInduction DEF T
<1>4. Len(s) \in Nat
  OBVIOUS
<1>5. PICK f : Good(f, Len(s))
  BY <1>3, <1>4 DEF T
<1> QED BY <1>5

\* and two of them agree where their sequences do,
LEMMA JoinsAgree ==
  ASSUME NEW s, NEW t, NEW m \in Nat, Len(s) \in Nat, Len(t) \in Nat,
         m <= Len(s), m <= Len(t), \A k \in 1 .. m : s[k] = t[k],
         NEW f, NEW g, Joins(f, s, Len(s)), Joins(g, t, Len(t))
  PROVE  \A k \in 1 .. m : f[k] = g[k]
<1> DEFINE T == {n \in Nat : \A k \in 1 .. m : k <= n => f[k] = g[k]}
<1>1. 0 \in T
  OBVIOUS
<1>2. ASSUME NEW n \in T PROVE n + 1 \in T
  <2>1. ASSUME NEW k \in 1 .. m, k <= n + 1 PROVE f[k] = g[k]
    <3>1. /\ f[k] = IF k = 1 THEN s[k] ELSE f[k - 1] \o s[k]
          /\ g[k] = IF k = 1 THEN t[k] ELSE g[k - 1] \o t[k]
      <4>1. /\ k \in 1 .. Len(s) /\ k <= Len(s)
            /\ k \in 1 .. Len(t) /\ k <= Len(t)
        BY <2>1
      <4> QED BY <4>1 DEF Joins
    <3>2. k # 1 => f[k - 1] = g[k - 1]
      BY <1>2, <2>1
    <3> QED BY <3>1, <3>2
  <2> QED BY <1>2, <2>1
<1> HIDE DEF T
<1>3. T = Nat
  BY <1>1, <1>2, SetInduction DEF T
<1>4. m \in T
  BY <1>3
<1> QED BY <1>4 DEF T

\* so FlattenSeq is the last of what any of them joins.
LEMMA FlattenIs ==
  ASSUME NEW S, NEW s \in Seq(Seq(S)), Len(s) > 0, NEW f, Joins(f, s, Len(s))
  PROVE  FlattenSeq(s) = f[Len(s)]
<1> DEFINE Rec(g) == [k \in 1 .. Len(s) |->
                        IF k = 1 THEN s[k] ELSE g[k - 1] \o s[k]]
           flatten == CHOOSE g : g = Rec(g)
           h == [k \in 1 .. Len(s) |-> f[k]]
<1>0. Len(s) \in Nat
  OBVIOUS
<1>1. h = Rec(h)
  <2>1. \A k \in 1 .. Len(s) : k # 1 => h[k - 1] = f[k - 1]
    OBVIOUS
  <2>2. \A k \in 1 .. Len(s) : h[k] = Rec(h)[k]
    BY <2>1 DEF Joins
  <2> QED BY <2>2
<1>2. flatten = Rec(flatten)
  <2> HIDE DEF Rec, h
  <2> QED BY <1>1
<1> HIDE DEF flatten
<1>3. Joins(flatten, s, Len(s))
  BY <1>2 DEF Joins
<1>4. flatten[Len(s)] = f[Len(s)]
  <2>1. Len(s) <= Len(s) /\ \A k \in 1 .. Len(s) : s[k] = s[k]
    BY <1>0
  <2>2. \A k \in 1 .. Len(s) : flatten[k] = f[k]
    BY <1>0, <1>3, <2>1, JoinsAgree
  <2> QED BY <1>0, <2>2
<1>5. FlattenSeq(s) = flatten[Len(s)]
  BY DEF FlattenSeq, flatten
<1> QED BY <1>4, <1>5

\* One sequence more comes after what is joined of the others.
LEMMA FlattenAppend ==
  ASSUME NEW S, NEW s \in Seq(Seq(S)), NEW x \in Seq(S)
  PROVE  /\ FlattenSeq(s) \in Seq(S)
         /\ FlattenSeq(Append(s, x)) = FlattenSeq(s) \o x
<1> DEFINE u == Append(s, x)
<1>1. /\ u \in Seq(Seq(S)) /\ Len(u) = Len(s) + 1 /\ Len(s) \in Nat
      /\ \A k \in 1 .. Len(s) : u[k] = s[k]
      /\ u[Len(s) + 1] = x
  BY AppendProperties
<1> HIDE DEF u
<1>2. PICK f : Joins(f, s, Len(s)) /\ \A k \in 1 .. Len(s) : f[k] \in Seq(S)
  BY JoinExists
<1>3. PICK g : Joins(g, u, Len(u))
  BY <1>1, JoinExists
<1>4. FlattenSeq(u) = g[Len(s) + 1]
  <2>1. Len(u) > 0
    BY <1>1
  <2>2. FlattenSeq(u) = g[Len(u)]
    BY <1>1, <1>3, <2>1, FlattenIs
  <2> QED BY <1>1, <2>2
<1>5. CASE Len(s) = 0
  <2>1. FlattenSeq(s) = <<>>
    BY <1>5, EmptySeq DEF FlattenSeq
  <2>2. g[1] = x
    BY <1>1, <1>3, <1>5 DEF Joins
  <2> QED BY <1>4, <1>5, <2>1, <2>2, ConcatEmptySeq, EmptySeq DEF u
<1>6. CASE Len(s) > 0
  <2>1. Joins(g, s, Len(s))
    <3>1. \A k \in 1 .. Len(s) : k \in 1 .. Len(u) /\ k <= Len(u)
      BY <1>1
    <3> QED BY <1>1, <1>3, <3>1 DEF Joins
  <2>2. FlattenSeq(s) = g[Len(s)] /\ FlattenSeq(s) \in Seq(S)
    <3>1. FlattenSeq(s) = g[Len(s)] /\ FlattenSeq(s) = f[Len(s)]
      BY <1>2, <1>6, <2>1, FlattenIs
    <3>2. Len(s) \in 1 .. Len(s)
      BY <1>1, <1>6
    <3> QED BY <1>2, <3>1, <3>2
  <2>3. g[Len(s) + 1] = g[Len(s)] \o x
    <3>1. /\ Len(s) + 1 \in 1 .. Len(u) /\ Len(s) + 1 <= Len(u)
          /\ Len(s) + 1 # 1 /\ (Len(s) + 1) - 1 = Len(s)
      BY <1>1, <1>6
    <3> QED BY <1>1, <1>3, <3>1 DEF Joins
  <2> QED BY <1>4, <2>2, <2>3 DEF u
<1> QED BY <1>1, <1>5, <1>6
-------------------------------------------------------------------------------
(***************************************************************************)
(* The response.                                                           *)
(***************************************************************************)
Buffers == [capacity : Nat, bytes : Seq(Nat)]

\* Bytes may be joined from either side.
LEMMA BytesRegroup ==
  \A x, y, z \in Seq(Nat) : (x \o y) \o z = x \o (y \o z)
  BY ConcatAssociative, SMTT(20)

\* One buffer more.
LEMMA CoalesceAppend ==
  ASSUME NEW buffers \in Seq(Buffers), NEW b \in Buffers
  PROVE  /\ coalesce(buffers) \in Seq(Nat)
         /\ coalesce(Append(buffers, b)) = coalesce(buffers) \o b.bytes
<1> DEFINE Bytes(bs) == [k \in DOMAIN bs |-> bs[k].bytes]
<1>1. Bytes(buffers) \in Seq(Seq(Nat)) /\ b.bytes \in Seq(Nat)
  <2>1. \A k \in 1 .. Len(buffers) : buffers[k] \in Buffers
    BY ElementOfSeq
  <2>2. DOMAIN buffers = 1 .. Len(buffers) /\ Len(buffers) \in Nat
    OBVIOUS
  <2> QED BY <2>1, <2>2 DEF Buffers
<1>2. Bytes(Append(buffers, b)) = Append(Bytes(buffers), b.bytes)
  <2>1. /\ DOMAIN Append(buffers, b) = 1 .. Len(buffers) + 1
        /\ DOMAIN buffers = 1 .. Len(buffers) /\ Len(buffers) \in Nat
        /\ Append(buffers, b)[Len(buffers) + 1] = b
        /\ \A k \in 1 .. Len(buffers) : Append(buffers, b)[k] = buffers[k]
    OBVIOUS
  <2>2. Len(Bytes(buffers)) = Len(buffers)
    BY <2>1
  <2> QED BY <1>1, <2>1, <2>2
<1> HIDE DEF Bytes
<1>3. /\ FlattenSeq(Bytes(buffers)) \in Seq(Nat)
      /\ FlattenSeq(Append(Bytes(buffers), b.bytes))
           = FlattenSeq(Bytes(buffers)) \o b.bytes
  BY <1>1, FlattenAppend
<1> QED BY <1>2, <1>3 DEF coalesce, Bytes

\* The buffers hold what was delivered, the last one with room for more, and
\* it is all there when the response is said to be; what is in the future is
\* the response there is.
ResponseInv ==
  /\ phase \in Phases
  /\ served \in Seq(Nat) /\ delivered \in 0 .. Len(served)
  /\ phase \in {"new", "queued", "upload", "sent"} => delivered = 0
  /\ impl = "cronet" /\ phase \in {"reading", "succeeded"} =>
       /\ bufferList \in Seq(Buffers) /\ bufferList # <<>>
       /\ coalesce(bufferList) = SubSeq(served, 1, delivered)
  /\ finishing = "succeeded" => phase = "succeeded" /\ impl = "cronet"
  /\ finishing # "none" => phase # "new"
  /\ impl = "cronet" /\ phase = "succeeded" => delivered = Len(served)
  /\ finishing \in {"none", "succeeded", "failed", "canceled"}
  /\ phase = "new" => future = Pending
  /\ ~Sendable => phase = "new"
  /\ canceled => phase # "new"
  /\ future[1] = "set" => future = Set(served) /\ phase = "succeeded"

\* An answer is about the response in the future, which is settled before it, or
\* there is no request.
AnswerInv ==
  /\ caller = "getFromUrl" =>
       answer \in {NoAnswer, Ok(<<>>), Ok(GetString(served))}
  /\ caller = "call" /\ answer[1] = "ok" =>
       \/ /\ shape \in {"texts", "ill_formed"}
          /\ answer = Ok(PartTexts(GetString(served)))
       \/ shape = "no_parts" /\ answer = Ok(<<>>)
  /\ answer = NoAnswer \/ caller = "direct" \/ ~Sendable \/ future # Pending

\* Only Cronet is called back, so its task comes after its requests.
CronetInv == phase \in Running => impl = "cronet"

\* Whether there is a request is settled before.
LEMMA SendableKept == UNCHANGED givenVars => Sendable' = Sendable
  BY DEF givenVars, Sendable, isValidConfigSettings, updateJsonRequest, Prepared

\* A request starts with nothing delivered.
LEMMA InitResponse == Init => ResponseInv
<1> SUFFICES ASSUME Init PROVE ResponseInv
  OBVIOUS
<1>1. served \in Seq(Nat) /\ delivered \in 0 .. Len(served)
  BY EmptySeq DEF Init
<1>2. future = Pending /\ future[1] # "set"
  BY DEF Init, Pending
<1> QED BY <1>1, <1>2 DEF Init, ResponseInv, Phases

\* What stays of a future that is not settled.
LEMMA Kept ==
  ASSUME ResponseInv,
         UNCHANGED <<givenVars, served, delivered, bufferList, future>>,
         phase' \in Phases \ {"new"}, phase # "new",
         finishing' = IF phase' \in Final THEN phase' ELSE finishing,
         phase' \in {"queued", "upload", "sent"} => phase \in {"upload", "sent"},
         phase' = "reading" => phase = "reading",
         phase' = "succeeded" =>
           phase = "reading" /\ delivered = Len(served) /\ impl = "cronet",
         phase \notin Final
  PROVE  ResponseInv'
<1>1. finishing # "succeeded" /\ future[1] # "set" /\ Sendable
  BY DEF ResponseInv, Final
<1>2. Sendable' /\ (finishing' = "succeeded" => phase' = "succeeded")
  BY <1>1, SendableKept
<1>3. (coalesce(bufferList))' = coalesce(bufferList)
  OBVIOUS
<1> QED BY <1>1, <1>2, <1>3 DEF ResponseInv, givenVars, Final, Phases, Running

\* The response begins.
LEMMA StartedStep ==
  ASSUME ResponseInv, CronetInv, onResponseStarted
  PROVE  ResponseInv'
<1>1. PICK body \in Bodies :
        \E lengths \in ContentLengths(body) :
          /\ served' = body
          /\ bufferList' = <<Buffer(getResponseBufferSizeEstimate(lengths))>>
  BY DEF onResponseStarted
<1>2. PICK lengths \in ContentLengths(body) :
        /\ served' = body
        /\ bufferList' = <<Buffer(getResponseBufferSizeEstimate(lengths))>>
  BY <1>1
<1>3. served' \in Seq(Nat)
  <2>1. \A n \in 0 .. MaxBody : Body(n) \in Seq(Nat)
    BY HttpAssumption DEF HttpAssumption, Body
  <2> QED BY <1>2, <2>1 DEF Bodies
<1> DEFINE b == Buffer(getResponseBufferSizeEstimate(lengths))
<1>4. b \in Buffers /\ b.bytes = <<>>
  <2>1. getResponseBufferSizeEstimate(lengths) \in Nat
    <3>1. Len(body) \in Nat
      BY <1>2, <1>3
    <3> QED BY <3>1, HttpAssumption
            DEF HttpAssumption, ContentLengths, getResponseBufferSizeEstimate
  <2> QED BY <2>1, EmptySeq DEF Buffer, Buffers
<1> HIDE DEF b
<1>5. bufferList' = Append(<<>>, b)
  BY <1>2 DEF b
<1>6. coalesce(<<>>) = <<>>
  BY DEF coalesce, FlattenSeq
<1>7. /\ bufferList' \in Seq(Buffers) /\ bufferList' # <<>>
      /\ coalesce(bufferList') = <<>>
  <2>1. <<>> \in Seq(Buffers)
    OBVIOUS
  <2>2. coalesce(Append(<<>>, b)) = <<>> \o <<>>
    BY <1>4, <1>6, <2>1, CoalesceAppend
  <2> QED BY <1>4, <1>5, <2>1, <2>2
<1>8. SubSeq(served', 1, 0) = <<>>
  BY SubSeqEmpty
<1>9. /\ delivered' = 0 /\ phase' = "reading" /\ phase = "sent"
      /\ UNCHANGED <<givenVars, finishing, future>>
  BY DEF onResponseStarted, upVars, doneVars, ResponseInv
<1>10. (coalesce(bufferList))' = SubSeq(served', 1, delivered')
  BY <1>7, <1>8, <1>9
<1>11. future[1] # "set" /\ Sendable'
  BY <1>9, SendableKept DEF ResponseInv
<1> QED BY <1>3, <1>7, <1>9, <1>10, <1>11
        DEF ResponseInv, givenVars, Phases, Running

\* A piece of the response comes into the last buffer.
LEMMA ReadStep ==
  ASSUME ResponseInv, CronetInv, onReadCompleted
  PROVE  ResponseInv'
<1> DEFINE last == Last(bufferList)
           front == Front(bufferList)
<1>0. /\ phase = "reading" /\ impl = "cronet"
      /\ bufferList \in Seq(Buffers) /\ bufferList # <<>>
      /\ coalesce(bufferList) = SubSeq(served, 1, delivered)
      /\ served \in Seq(Nat) /\ delivered \in 0 .. Len(served)
  BY DEF onReadCompleted, ResponseInv, CronetInv, Running
<1>1. /\ front \in Seq(Buffers) /\ last \in Buffers
      /\ bufferList = Append(front, last)
  <2>1. Len(bufferList) \in Nat /\ Len(bufferList) > 0
    BY <1>0, EmptySeq
  <2>2. \A k \in 1 .. Len(bufferList) : bufferList[k] \in Buffers
    BY <1>0, ElementOfSeq
  <2> QED BY <1>0, <2>1, <2>2 DEF Front, Last
<1>2. PICK n \in 1 .. Least(last.capacity - Len(last.bytes),
                            Len(served) - delivered) :
        /\ bufferList' = Extended(front \o <<Filled(last, n)>>)
        /\ delivered' = delivered + n
  BY DEF onReadCompleted
<1>3. n \in Nat /\ delivered + n <= Len(served)
  <2>1. last.capacity \in Nat /\ Len(last.bytes) \in Nat
    BY <1>1 DEF Buffers
  <2> HIDE DEF last
  <2> QED BY <1>0, <2>1 DEF Least
<1> HIDE DEF last, front
<1> DEFINE piece == SubSeq(served, delivered + 1, delivered + n)
           full == Filled(last, n)
           list == Append(front, full)
<1>4. piece \in Seq(Nat)
  <2>1. \A k \in delivered + 1 .. delivered + n : served[k] \in Nat
    BY <1>0, <1>3, ElementOfSeq
  <2> QED BY <1>0, <1>3, <2>1, SubSeqProperties, SMTT(20)
<1>5. full \in Buffers /\ full.bytes = last.bytes \o piece
  <2> HIDE DEF piece
  <2>1. last.bytes \o piece \in Seq(Nat) /\ last.capacity \in Nat
    BY <1>1, <1>4, ConcatProperties DEF Buffers
  <2>2. full = [last EXCEPT !.bytes = last.bytes \o piece]
    BY DEF Filled, piece
  <2> QED BY <1>1, <2>1, <2>2 DEF Buffers
<1>6. SubSeq(served, 1, delivered) \o piece = SubSeq(served, 1, delivered + n)
  BY <1>0, <1>3, ReadAppends
<1> HIDE DEF piece, full
<1>7. list \in Seq(Buffers) /\ list # <<>> /\ list = front \o <<full>>
  BY <1>1, <1>5
<1>8. coalesce(list) = SubSeq(served, 1, delivered + n)
  <2>1. coalesce(list) = coalesce(front) \o (last.bytes \o piece)
    BY <1>1, <1>5, CoalesceAppend
  <2>2. coalesce(bufferList) = coalesce(front) \o last.bytes
    BY <1>1, CoalesceAppend
  <2>3. coalesce(front) \in Seq(Nat) /\ last.bytes \in Seq(Nat)
    BY <1>1, CoalesceAppend DEF Buffers
  <2>4. coalesce(front) \o (last.bytes \o piece)
          = (coalesce(front) \o last.bytes) \o piece
    BY <1>4, <2>3, BytesRegroup, Zenon
  <2> QED BY <1>0, <1>6, <2>1, <2>2, <2>4
<1> HIDE DEF list
<1>9. /\ bufferList' \in Seq(Buffers) /\ bufferList' # <<>>
      /\ coalesce(bufferList') = SubSeq(served, 1, delivered + n)
  <2>1. bufferList' = Extended(list)
    BY <1>2, <1>7 DEF full
  <2>2. CASE HasRemaining(Last(list))
    BY <1>7, <1>8, <2>1, <2>2 DEF Extended
  <2>3. CASE ~HasRemaining(Last(list))
    <3> DEFINE b == Buffer(BYTE_BUFFER_LENGTH)
    <3>1. b \in Buffers /\ b.bytes = <<>>
      BY HttpAssumption DEF HttpAssumption, Buffer, Buffers
    <3> HIDE DEF b
    <3>2. bufferList' = Append(list, b)
      BY <1>7, <2>1, <2>3, <3>1 DEF Extended, b
    <3>3. coalesce(Append(list, b)) = coalesce(list) \o <<>>
      BY <1>7, <3>1, CoalesceAppend
    <3>4. coalesce(list) \in Seq(Nat)
      BY <1>7, <3>1, CoalesceAppend
    <3>5. coalesce(list) \o <<>> = coalesce(list)
      BY <3>4, ConcatEmptySeq
    <3>6. Append(list, b) \in Seq(Buffers) /\ Append(list, b) # <<>>
      BY <1>7, <3>1
    <3> QED BY <1>8, <3>2, <3>3, <3>5, <3>6
  <2> QED BY <2>2, <2>3
<1>10. /\ phase' = "reading"
       /\ UNCHANGED <<givenVars, served, finishing, future>>
  BY <1>0 DEF onReadCompleted, upVars, doneVars
<1>11. (coalesce(bufferList))' = SubSeq(served', 1, delivered')
  BY <1>2, <1>9, <1>10
<1>12. delivered' \in 0 .. Len(served')
  BY <1>0, <1>2, <1>3, <1>10
<1>13. Sendable'
  BY <1>0, <1>10, SendableKept DEF ResponseInv
<1> QED BY <1>0, <1>9, <1>10, <1>11, <1>12, <1>13
        DEF ResponseInv, givenVars, Phases, Running

\* What settles the future.
LEMMA SettleStep ==
  ASSUME ResponseInv, CronetInv,
         \/ CancelFuture \/ onRedirectReceived \/ onResponseRefused
         \/ RunFinishingTask
  PROVE  ResponseInv'
<1> USE DEF givenVars, downVars, doneVars, upVars, ResponseInv, Phases, Running,
            Final, Settle, Settled, Pending, Exception, Cancelled, Set
<1>0. Sendable' = Sendable
  BY SendableKept DEF CancelFuture, onRedirectReceived, onResponseRefused,
                      RunFinishingTask
<1>1. CASE CancelFuture
  BY <1>0, <1>1 DEF CancelFuture
<1>2. CASE onRedirectReceived
  BY <1>0, <1>2 DEF onRedirectReceived, Alive
<1>3. CASE onResponseRefused
  BY <1>0, <1>3 DEF onResponseRefused, Refused, Alive
<1>4. CASE RunFinishingTask
  <2>1. finishing = "succeeded" => coalesce(bufferList) = served
    <3>1. SubSeq(served, 1, Len(served)) = served
      BY SubSeqFull
    <3> QED BY <3>1
  <2> HIDE DEF Set
  <2>2. \/ future' = future
        \/ /\ future = Pending
           /\ \/ finishing = "succeeded" /\ future' = Set(served)
              \/ future' \in {Exception, Cancelled}
    BY <1>4, <2>1 DEF RunFinishingTask
  <2>3. future'[1] = "set" => future' = Set(served) /\ phase = "succeeded"
    BY <2>2 DEF Set
  <2>4. future[1] = "set" => future'[1] = "set"
    BY <2>2 DEF Set
  <2>5. /\ finishing' = "none" /\ phase # "new"
        /\ UNCHANGED <<givenVars, phase, upVars, downVars, canceled>>
    BY <1>4 DEF RunFinishingTask
  <2>6. (coalesce(bufferList))' = coalesce(bufferList)
    BY <2>5
  <2> HIDE DEF Pending, Exception, Cancelled
  <2> QED BY <1>0, <2>3, <2>4, <2>5, <2>6
<1> QED BY <1>1, <1>2, <1>3, <1>4

\* Every body is a sequence.
LEMMA BodiesAreSequences == \A body \in Bodies : body \in Seq(Nat)
<1>1. \A n \in 0 .. MaxBody : Body(n) \in Seq(Nat)
  BY HttpAssumption DEF HttpAssumption, Body
<1> QED BY <1>1 DEF Bodies

\* The start of a request, and the task of JavaHttpClientImpl, which takes the
\* response as a whole; a future that is settled already stays as it is.
LEMMA SendStep ==
  ASSUME ResponseInv, AwaitedInv, send \/ sendInTask \/ RunTask
  PROVE  ResponseInv'
<1> USE DEF givenVars, upVars, downVars, doneVars, ResponseInv, Phases, Running,
            Final, Settle, Settled, Set, Exception, Pending
<1>0. Sendable' = Sendable
  BY SendableKept DEF send, sendInTask, RunTask
<1>1. CASE send \/ sendInTask
  <2>1. /\ phase = "new" /\ Sendable /\ future = Pending
        /\ finishing = "none"
        /\ UNCHANGED <<givenVars, downVars, canceled, finishing>>
    BY <1>1 DEF send, sendInTask, AwaitedInv
  <2>2. CASE FailToSend
    BY <1>0, <2>1, <2>2 DEF FailToSend
  <2>3. CASE ~FailToSend
    BY <1>0, <1>1, <2>1, <2>3 DEF send, sendInTask
  <2> QED BY <2>2, <2>3
<1>2. CASE RunTask
  <2>1. /\ phase = "queued" /\ delivered = 0 /\ future[1] # "set" /\ Sendable
        /\ finishing = "none"
        /\ UNCHANGED <<givenVars, delivered, bufferList, canceled, finishing>>
    BY <1>2 DEF RunTask, AwaitedInv
  <2>2. impl = "java"
    BY <2>1 DEF AwaitedInv
  <2>3. CASE FailToSend /\ UNCHANGED <<served, shape, received>>
    BY <1>0, <2>1, <2>2, <2>3 DEF FailToSend
  <2>4. CASE /\ phase' = "succeeded"
             /\ \E body \in Bodies : served' = body /\ Settle(Set(body))
    <3>1. PICK body \in Bodies : served' = body /\ Settle(Set(body))
      BY <2>4
    <3>2. served' \in Seq(Nat) /\ 0 \in 0 .. Len(served')
      BY <3>1, BodiesAreSequences
    <3>3. future'[1] = "set" => future' = Set(served')
      BY <2>1, <3>1
    <3> QED BY <1>0, <2>1, <2>2, <2>4, <3>2, <3>3
  <2> QED BY <1>2, <2>3, <2>4 DEF RunTask
<1> QED BY <1>1, <1>2

\* The other steps.
LEMMA NextResponse ==
  ASSUME ResponseInv, AwaitedInv, [Next]_vars
  PROVE  ResponseInv'
<1>0. CronetInv
  BY DEF AwaitedInv, CronetInv
<1>1. CASE send \/ sendInTask \/ RunTask
  BY <1>1, SendStep
<1>3. CASE Upload \/ Sent \/ Retry \/ onFailed \/ onCanceled \/ onSucceeded
  <2> USE DEF givenVars, downVars, doneVars, Phases, Running, Final
  <2>1. CASE Upload \/ Sent \/ Retry
    BY <2>1, Kept DEF Upload, Sent, Retry, Alive
  <2>2. CASE onFailed \/ onCanceled
    <3>1. phase # "new"
      BY <2>2 DEF onFailed, onCanceled, Alive, ResponseInv, Running
    <3> QED BY <2>2, <3>1, Kept
            DEF onFailed, onCanceled, Alive, Finish, ResponseInv
  <2>3. CASE onSucceeded
    BY <1>0, <2>3, Kept DEF onSucceeded, Alive, Finish, CronetInv
  <2> QED BY <1>3, <2>1, <2>2, <2>3
<1>4. CASE onResponseStarted \/ onReadCompleted
  BY <1>0, <1>4, StartedStep, ReadStep
<1>5. CASE \/ CancelFuture \/ onRedirectReceived \/ onResponseRefused
           \/ RunFinishingTask
  BY <1>0, <1>5, SettleStep
<1>6. CASE ReturnToCaller \/ UNCHANGED vars
  <2>1. /\ UNCHANGED <<givenVars, phase, served, delivered, bufferList, canceled,
                       finishing, future>>
    BY <1>6 DEF ReturnToCaller, vars, downVars, doneVars
  <2>2. Sendable' = Sendable /\ (coalesce(bufferList))' = coalesce(bufferList)
    BY <2>1, SendableKept
  <2> QED BY <2>1, <2>2 DEF ResponseInv, givenVars
<1> QED BY <1>1, <1>3, <1>4, <1>5, <1>6 DEF Next, Cronet
-------------------------------------------------------------------------------
(***************************************************************************)
(* The answer.                                                             *)
(***************************************************************************)
\* A settled future stays settled.
LEMMA StaysSettled ==
  ASSUME [Next]_vars, future # Pending
  PROVE  future' # Pending
<1>1. \A outcome : Settled(future, outcome) = future
  BY DEF Settled
<1> QED BY <1>1
        DEF Next, Cronet, send, sendInTask, RunTask, FailToSend, CancelFuture,
            Upload, Retry, Sent, onRedirectReceived, onResponseStarted,
            onResponseRefused, Refused, onReadCompleted, onSucceeded, onFailed,
            onCanceled, Finish, RunFinishingTask, ReturnToCaller, vars, doneVars,
            Settle

\* No text stays none.
LEMMA NoText == GetString(<<>>) = <<>>
<1>1. \A f : DOMAIN f = {} /\ f = [i \in DOMAIN f |-> f[i]] => f = <<>>
  OBVIOUS
<1>2. DOMAIN [i \in DOMAIN <<>> |-> <<>>[i] + 2 * MaxBody] = {}
  OBVIOUS
<1> QED BY <1>1, <1>2 DEF GetString

\* The callers make of the response what they should.
LEMMA AnswerStep ==
  ASSUME ResponseInv, AnswerInv, ReturnToCaller
  PROVE  AnswerInv'
<1> DEFINE text == TextOf(future)
<1>1. /\ caller # "direct" /\ (future # Pending \/ ~Sendable)
      /\ UNCHANGED <<givenVars, served, shape, future>>
  BY DEF ReturnToCaller, downVars, doneVars
<1>2. text = served \/ text = <<>>
  BY DEF ResponseInv, TextOf, Set
<1>3. UNCHANGED <<caller, settings>> /\ Sendable' = Sendable
  BY <1>1, SendableKept DEF givenVars
<1>4. (GetString(served))' = GetString(served)
  BY <1>1 DEF GetString
<1>5. CASE caller = "getFromUrl"
  <2>1. answer' = Ok(GetString(text))
    BY <1>5 DEF ReturnToCaller, GetFromUrl
  <2> QED BY <1>1, <1>2, <1>3, <1>4, <1>5, <2>1, NoText DEF AnswerInv
<1>6. CASE caller # "getFromUrl"
  <2>1. CallThrows \/ GoogleAiCall(text)
    BY <1>6 DEF ReturnToCaller
  <2>2. /\ Gone[1] # "ok" /\ InternalError[1] # "ok" /\ InvalidArgument[1] # "ok"
        /\ UnknownError[1] # "ok"
    BY DEF Gone, InternalError, InvalidArgument, UnknownError
  <2>3. CASE answer'[1] = "ok"
    <3>1. text = served
      BY <1>2, <2>1, <2>2, <2>3 DEF GoogleAiCall, CallThrows
    <3>2. \/ /\ shape \in {"texts", "ill_formed"}
             /\ answer' = Ok(PartTexts(GetString(served)))
          \/ shape = "no_parts" /\ answer' = Ok(<<>>)
      BY <2>1, <2>2, <2>3, <3>1 DEF GoogleAiCall, CallThrows
    <3> QED BY <1>1, <1>3, <1>4, <1>6, <3>2 DEF AnswerInv
  <2>4. CASE answer'[1] # "ok"
    BY <1>1, <1>3, <1>6, <2>4 DEF AnswerInv
  <2> QED BY <2>3, <2>4
<1> QED BY <1>5, <1>6

\* An answer that was given, or was not, stays right.
LEMMA AnswerKept ==
  ASSUME AnswerInv, [Next]_vars, UNCHANGED <<givenVars, answer>>,
         answer = NoAnswer \/ caller = "direct" \/ UNCHANGED <<served, shape>>
  PROVE  AnswerInv'
<1>1. UNCHANGED caller /\ Sendable' = Sendable
  BY SendableKept DEF givenVars
<1>2. CASE answer = NoAnswer \/ caller = "direct"
  BY <1>1, <1>2 DEF AnswerInv, NoAnswer
<1>3. CASE UNCHANGED <<served, shape>>
  <2>1. (GetString(served))' = GetString(served)
    BY <1>3 DEF GetString
  <2> QED BY <1>1, <1>3, <2>1, StaysSettled DEF AnswerInv
<1> QED BY <1>2, <1>3

\* A response comes before any answer.
LEMMA NextAnswer ==
  ASSUME ResponseInv, AwaitedInv, AnswerInv, [Next]_vars
  PROVE  AnswerInv'
<1>1. CASE ReturnToCaller
  BY <1>1, AnswerStep
<1>2. CASE onResponseStarted \/ RunTask
  <2>1. Sendable /\ (future = Pending \/ caller = "direct")
    BY <1>2 DEF onResponseStarted, RunTask, Alive, ResponseInv, AwaitedInv,
                Running
  <2>2. answer = NoAnswer \/ caller = "direct"
    BY <2>1 DEF AnswerInv
  <2>3. UNCHANGED <<givenVars, answer>>
    BY <1>2 DEF onResponseStarted, RunTask
  <2> QED BY <2>2, <2>3, AnswerKept
<1>3. CASE UNCHANGED <<givenVars, served, shape, answer>>
  BY <1>3, AnswerKept
<1> QED BY <1>1, <1>2, <1>3
        DEF Next, Cronet, send, sendInTask, CancelFuture, Upload, Retry, Sent,
            onRedirectReceived, onResponseRefused, onReadCompleted, onSucceeded,
            onFailed, onCanceled, Finish, RunFinishingTask, vars, downVars
-------------------------------------------------------------------------------
(***************************************************************************)
(* That a request whose future is not settled goes on.                     *)
(***************************************************************************)
\* The buffer that Cronet reads into has room.
RoomInv == phase = "reading" => HasRemaining(Last(bufferList))

LEMMA LastOfAppended ==
  ASSUME NEW S, NEW s \in Seq(S), NEW e
  PROVE  Last(s \o <<e>>) = e
<1>1. s \in Seq(S \cup {e}) /\ <<e>> \in Seq(S \cup {e})
  <2>1. s \in Seq(S \cup {e})
    BY SeqMonotonic
  <2> QED BY <2>1
<1>2. Len(s \o <<e>>) = Len(s) + 1 /\ (s \o <<e>>)[Len(s) + 1] = e /\ Len(s) \in Nat
  BY <1>1
<1> QED BY <1>2 DEF Last

\* A fresh buffer has room for something.
LEMMA FreshHasRoom ==
  ASSUME NEW n \in Nat, n > 0
  PROVE  HasRemaining(Buffer(n))
  BY DEF HasRemaining, Buffer

LEMMA NextRoom ==
  ASSUME ResponseInv, AwaitedInv, RoomInv, [Next]_vars
  PROVE  RoomInv'
<1>1. CASE onResponseStarted
  <2>1. PICK body \in Bodies :
          \E lengths \in ContentLengths(body) :
            bufferList' = <<Buffer(getResponseBufferSizeEstimate(lengths))>>
    BY <1>1 DEF onResponseStarted
  <2>2. PICK lengths \in ContentLengths(body) :
          bufferList' = <<Buffer(getResponseBufferSizeEstimate(lengths))>>
    BY <2>1
  <2>3. Len(body) \in Nat
    <3>1. \A n \in 0 .. MaxBody : Body(n) \in Seq(Nat)
      BY HttpAssumption DEF HttpAssumption, Body
    <3> QED BY <3>1 DEF Bodies
  <2>4. /\ getResponseBufferSizeEstimate(lengths) \in Nat
        /\ getResponseBufferSizeEstimate(lengths) > 0
    BY <2>3, HttpAssumption
       DEF HttpAssumption, ContentLengths, getResponseBufferSizeEstimate
  <2> DEFINE b == Buffer(getResponseBufferSizeEstimate(lengths))
  <2>5. HasRemaining(b)
    BY <2>4, FreshHasRoom
  <2> HIDE DEF b
  <2>6. Last(<<b>>) = b
    BY DEF Last
  <2>7. bufferList' = <<b>>
    BY <2>2 DEF b
  <2> QED BY <2>5, <2>6, <2>7 DEF RoomInv
<1>2. CASE onReadCompleted
  <2> DEFINE front == Front(bufferList)
  <2>1. front \in Seq(Buffers)
    <3>1. bufferList \in Seq(Buffers) /\ bufferList # <<>>
      BY <1>2 DEF onReadCompleted, ResponseInv, AwaitedInv, Running
    <3>2. Len(bufferList) \in Nat /\ Len(bufferList) > 0
      BY <3>1, EmptySeq
    <3>3. \A k \in 1 .. Len(bufferList) : bufferList[k] \in Buffers
      BY <3>1, ElementOfSeq
    <3> QED BY <3>1, <3>2, <3>3 DEF Front
  <2>2. \E full : bufferList' = Extended(front \o <<full>>)
    BY <1>2 DEF onReadCompleted
  <2> HIDE DEF front
  <2>3. PICK full : bufferList' = Extended(front \o <<full>>)
    BY <2>2
  <2> DEFINE list == front \o <<full>>
  <2>4. list \in Seq(Buffers \cup {full})
    <3>1. front \in Seq(Buffers \cup {full})
      BY <2>1, SeqMonotonic
    <3> QED BY <3>1, ConcatProperties
  <2> HIDE DEF list
  <2>5. CASE HasRemaining(Last(list))
    BY <2>3, <2>5 DEF RoomInv, Extended, list
  <2>6. CASE ~HasRemaining(Last(list))
    <3>1. bufferList' = list \o <<Buffer(BYTE_BUFFER_LENGTH)>>
      BY <2>3, <2>6 DEF Extended, list
    <3>2. HasRemaining(Buffer(BYTE_BUFFER_LENGTH))
      BY FreshHasRoom, HttpAssumption DEF HttpAssumption
    <3>3. Last(list \o <<Buffer(BYTE_BUFFER_LENGTH)>>) = Buffer(BYTE_BUFFER_LENGTH)
      BY <2>4, LastOfAppended
    <3> QED BY <3>1, <3>2, <3>3 DEF RoomInv
  <2> QED BY <2>5, <2>6
<1>3. CASE bufferList' = bufferList /\ (phase' = "reading" => phase = "reading")
  BY <1>3 DEF RoomInv
<1> QED BY <1>1, <1>2, <1>3
        DEF Next, Cronet, send, sendInTask, RunTask, FailToSend, CancelFuture,
            Upload, Retry, Sent, onRedirectReceived, onResponseRefused,
            onSucceeded, onFailed, onCanceled, Finish, RunFinishingTask,
            ReturnToCaller, vars, downVars, Final

\* A request that is not settled is in a phase that something follows.
LEMMA UnsettledGoesOn ==
  UploadInv /\ AwaitedInv /\ ResponseInv /\ RoomInv => RunningIsAwaited
<1> SUFFICES ASSUME UploadInv, AwaitedInv, ResponseInv, RoomInv,
                    phase # "new", future = Pending
             PROVE  GoesOn
  BY DEF AwaitedInv, RunningIsAwaited
<1>1. CASE phase = "upload"
  <2>1. /\ received = SubSeq(post, 1, position) /\ position \in 0 .. Len(post)
        /\ dropped => position = 0
    BY <1>1 DEF UploadInv, Running
  <2>2. Len(SubSeq(post, 1, position)) = position
    <3>1. \A i \in 1 .. position : post[i] \in Nat
      BY <2>1, ElementOfSeq DEF UploadInv
    <3> QED BY <2>1, <3>1, SubSeqProperties DEF UploadInv
  <2>3. position <= Len(Payload)
    BY <2>1 DEF Payload
  <2> QED BY <1>1, <2>1, <2>2, <2>3 DEF GoesOn
<1>2. CASE phase = "sent"
  BY <1>2 DEF GoesOn
<1>3. CASE phase = "reading"
  BY <1>3 DEF ResponseInv, RoomInv, GoesOn
<1>4. CASE phase \in Final \cup {"queued"}
  BY <1>4 DEF AwaitedInv, GoesOn
<1> QED BY <1>1, <1>2, <1>3, <1>4 DEF AwaitedInv, Phases, Running
-------------------------------------------------------------------------------
\* The server that answers got the whole body of the request, also after
\* retries and redirects, or none of it if a redirect made it a GET
\* (HttpClientUploadDataProvider read and rewind, JavaHttpClientImpl send).
THEOREM WholeUpload == Spec => []UploadIsWhole
<1>1. UploadInv => UploadIsWhole
  BY DEF UploadInv
<1> QED BY InitInv, NextUploadInv, <1>1, PTL DEF Spec

\* A response is the whole body in its order, however long the header said it
\* is, whatever the size of the buffers and however it was cut; the text that
\* the simple interface gives is all of it in modified UTF-8, or empty for an
\* error; GoogleAiCall gives the texts of the parts of the whole reply, an empty
\* text for a reply without parts, or no text (onResponseStarted,
\* onReadCompleted, coalesce, google_ai.cc:73-92, jni_utils.cc:36-46).
THEOREM WholeResponse == Spec => []ResponseIsWhole
<1> DEFINE Inv == AwaitedInv /\ ResponseInv /\ AnswerInv
<1>1. Init => Inv
  <2>1. Init => AnswerInv
    BY DEF Init, AnswerInv, NoAnswer
  <2> QED BY <2>1, InitInv, InitResponse
<1>2. Inv /\ [Next]_vars => Inv'
  BY NextAwaitedInv, NextResponse, NextAnswer
<1>3. Inv => ResponseIsWhole
  BY DEF ResponseInv, AnswerInv, ResponseIsWhole
<1> HIDE DEF Inv
<1> QED BY <1>1, <1>2, <1>3, PTL DEF Spec

\* A request that Cronet still works on is awaited or told to stop, and one that
\* is neither settled nor told to stop can go on: there is always room in the
\* last buffer, and no path to a final phase leaves the future to nobody. The
\* task of JavaHttpClientImpl is never told to stop, and it comes to an end
\* (HttpClientImpl and JavaHttpClientImpl send, onRedirectReceived,
\* onReadCompleted, onSucceeded).
THEOREM Awaited == Spec => []RunningIsAwaited
<1> DEFINE Inv == UploadInv /\ AwaitedInv /\ ResponseInv /\ RoomInv
<1>1. Init => Inv
  BY InitInv, InitResponse DEF Init, RoomInv
<1>2. Inv /\ [Next]_vars => Inv'
  BY NextUploadInv, NextAwaitedInv, NextResponse, NextRoom
<1>3. Inv => RunningIsAwaited
  BY UnsettledGoesOn
<1> HIDE DEF Inv
<1> QED BY <1>1, <1>2, <1>3, PTL DEF Spec
===============================================================================
